---- MODULE Spec2Model ----
(***************************************************************************)
(* Retrieval pipeline of the RAG assistant: the text chunker               *)
(* (src/lib/documents/chunker.ts), the transcript chunker and the meeting  *)
(* sync (lib/fireflies), the retriever (lib/ai/rag) and the chunk-set      *)
(* replace of the document processing route.                               *)
(*                                                                         *)
(* Strings are sequences of one-character strings; offsets are the         *)
(* 0-based offsets of the source, so text.slice(a, b) is Slice(text, a, b).*)
(***************************************************************************)
EXTENDS Integers, Sequences, FiniteSets, TLC

VARIABLES
    \* ---- chunkText (chunker.ts) ----
    rawText,          \* the text argument
    chunkSize,        \* opts.chunkSize
    chunkOverlap,     \* opts.chunkOverlap
    cleanedText,      \* const cleanedText
    currentPosition,  \* let currentPosition
    chunkIndex,       \* let chunkIndex
    chunks,           \* const chunks: TextChunk[]
    loopTick,         \* parity of the number of loop iterations run (history)
    cpc,              \* position of the call: "idle", "loop", "done"
    previous,         \* an earlier call whose arguments are used again, and
                      \* what it returned (history)
    \* ---- retrieveRelevantChunks / hybridSearch (lib/ai/rag) ----
    ragCall,          \* the call: [fn, query, options]
    opts,             \* const opts of retrieveRelevantChunks
    queryEmbedding,   \* const queryEmbedding
    matchedChunks,    \* data of the match_document_chunks call
    documentMap,      \* const documentMap
    vectorResults,    \* the RAGResult retrieveRelevantChunks returned
    ragResult,        \* the RAGResult returned to the caller
    rpc,              \* position of the call: "idle", "embedding", "searching",
                      \* "lookup", "done", "failed"
    ioLog,            \* requests sent by the call, and the one that failed (history)
    \* ---- chunkTranscript (lib/fireflies sync) ----
    transcript,       \* the transcript argument
    maxChunkSize,     \* options.maxChunkSize
    overlapSize,      \* options.overlapSize
    lines,            \* const lines
    lineIndex,        \* the line the for loop is at
    currentChunk,     \* let currentChunk
    currentTimestamp, \* let currentTimestamp (<<>> is undefined)
    currentSpeaker,   \* let currentSpeaker (<<>> is undefined)
    transcriptChunks, \* const chunks of chunkTranscript
    bufferFirst,      \* first speaker line appended to the buffer (history)
    chunkFirst,       \* bufferFirst of each chunk when it was pushed (history)
    tpc,              \* position of the call: "idle", "lines", "done"
    \* ---- stored chunks and the handlers that replace them ----
    documentStatus,       \* documents.status of the document
    storedDocumentChunks, \* rows of document_chunks of the document
    meetingSynced,        \* the meetings row exists
    storedMeetingChunks,  \* rows of meeting_chunks of the meeting
    processPc,            \* POST: "idle", "fetched", "marked", "embedded",
                          \* "deleted", "inserted"
    processRecords,       \* POST: const chunkRecords
    syncPc,               \* syncMeeting: "idle", "embedding"
    reembedPc,            \* reembedMeeting: "idle", "fetched", "deleted", "embedded"
    meetingRecords,       \* reembedMeeting: const chunkRecords
    runs,                 \* number of handler runs started
    documentReplace,      \* a POST run is replacing; the rows at its start (history)
    meetingReplace,       \* a reembedMeeting run is replacing; same (history)
    observed,              \* what the last retrieval read
    \* ---- generateEmbeddings (lib/ai/embeddings) ----
    texts,                \* the texts argument
    batchSize,            \* the batchSize argument
    batchStart,           \* let i of the loop
    results,              \* const results
    pendingCalls,         \* calls of embeddings.create not answered yet
    sentBatches,          \* the input of every call sent so far (history)
    embeddingsReturn,     \* what the caller gets: nothing yet, or the results
    epc,                   \* position of the call: "idle", "loop", "awaiting",
                          \* "done", "failed"
    \* ---- mergeSmallChunks (chunker.ts) ----
    mergeInput,           \* the chunks argument
    minSize,              \* the minSize argument
    mergeOutput,          \* the returned chunks
    mpc,                   \* position of the call: "idle", "done"
    \* ---- formatChunksForContext (lib/ai/rag) ----
    formatInput,          \* the chunks argument
    formatOutput,         \* the returned string
    fpc,                   \* position of the call: "idle", "done"
    \* ---- two POST /api/documents/process requests for one document ----
    docStatus,            \* documents.status of the document
    docChunkRows,         \* rows of document_chunks of the document
    docChunkCount,        \* number of chunks the document's text gives (0: not
                          \* chunked yet)
    postPc,                \* position of each request: "idle", "refused",
                          \* "fetched", "marked", "embedded", "deleted",
                          \* "inserted", "finished", "failed"
    \* ---- two syncMeeting calls with one firefliesId ----
    meetingsRows,         \* rows of meetings with this fireflies_id, by the call
                          \* that inserted them
    meetingChunkRows,     \* rows of meeting_chunks of those meetings
    syncCallPc,           \* position of each call: "idle", "checked", "fetched",
                          \* "inserted", "embedded", "done"
    syncCallChunks,       \* chunkRecords.length of each call
    syncCallReturn,       \* what each call returned
    syncCallPersisted     \* number of chunk rows each call stored (history)

chunkVars == <<rawText, chunkSize, chunkOverlap, cleanedText, currentPosition,
               chunkIndex, chunks, loopTick, cpc, previous>>

ragVars == <<ragCall, opts, queryEmbedding, matchedChunks, documentMap,
             vectorResults, ragResult, rpc, ioLog>>

transcriptVars == <<transcript, maxChunkSize, overlapSize, lines, lineIndex,
                    currentChunk, currentTimestamp, currentSpeaker,
                    transcriptChunks, bufferFirst, chunkFirst, tpc>>

storeVars == <<documentStatus, storedDocumentChunks, meetingSynced,
               storedMeetingChunks, processPc, processRecords, syncPc, reembedPc,
               meetingRecords, runs, documentReplace, meetingReplace, observed>>

embedVars == <<texts, batchSize, batchStart, results, pendingCalls, sentBatches,
               embeddingsReturn, epc>>

mergeVars == <<mergeInput, minSize, mergeOutput, mpc>>

formatVars == <<formatInput, formatOutput, fpc>>

processRaceVars == <<docStatus, docChunkRows, docChunkCount, postPc>>

syncRaceVars == <<meetingsRows, meetingChunkRows, syncCallPc, syncCallChunks,
                  syncCallReturn, syncCallPersisted>>

vars == <<chunkVars, ragVars, transcriptVars, storeVars, embedVars, mergeVars,
          formatVars, processRaceVars, syncRaceVars>>

----------------------------------------------------------------------------
(* Bounds of the model *)

MaxTextLen == 4
MaxChunkSize == 3
MaxTopK == 2
MaxBudget == 5
MaxQueryTokens == 2
MaxMatched == 3
MaxLines == 3
MinTranscriptSize == 10
MaxRuns == 3
MaxStoredChunks == 2
MaxPad == 2
MaxTexts == 3
MaxBatchSize == 2
MaxMergeChunks == 3
MaxMinSize == 3
MaxFormatChunks == 3

----------------------------------------------------------------------------
(* Strings *)

Min(a, b) == IF a <= b THEN a ELSE b
Max(a, b) == IF a >= b THEN a ELSE b

\* Characters the input texts are drawn from.
Alphabet == {"a", ".", " ", "\n", "\t", "\r"}

\* White space as String.prototype.trim and the regexp class \s see it.
IsSpace(c) == c \in {" ", "\n", "\t", "\r"}

\* s.slice(a, b) for 0 <= a, 0 <= b
Slice(s, a, b) == SubSeq(s, a + 1, Min(b, Len(s)))

\* s.trim()
RECURSIVE TrimLeft(_)
TrimLeft(s) ==
    IF s = <<>> THEN <<>>
    ELSE IF IsSpace(Head(s)) THEN TrimLeft(Tail(s)) ELSE s

RECURSIVE TrimRight(_)
TrimRight(s) ==
    IF s = <<>> THEN <<>>
    ELSE IF IsSpace(s[Len(s)]) THEN TrimRight(SubSeq(s, 1, Len(s) - 1)) ELSE s

Trim(s) == TrimRight(TrimLeft(s))

\* w.lastIndexOf(sep): the greatest 0-based offset at which sep occurs, or -1
LastIndexOf(w, sep) ==
    LET hits == {i \in 0..(Len(w) - Len(sep)) : SubSeq(w, i + 1, i + Len(sep)) = sep}
    IN  IF hits = {} THEN -1 ELSE CHOOSE i \in hits : \A j \in hits : j <= i

\* s.split(/\s+/).filter(Boolean).length
WordCount(s) ==
    Cardinality({i \in 1..Len(s) : ~IsSpace(s[i]) /\ (i = 1 \/ IsSpace(s[i - 1]))})

\* text.replace(/\r\n/g, '\n')
RECURSIVE ReplaceCRLF(_)
ReplaceCRLF(s) ==
    LET hits == {i \in 1..(Len(s) - 1) : s[i] = "\r" /\ s[i + 1] = "\n"}
    IN  IF hits = {} THEN s
        ELSE LET k == CHOOSE i \in hits : \A j \in hits : i <= j
             IN  SubSeq(s, 1, k - 1) \o <<"\n">> \o ReplaceCRLF(SubSeq(s, k + 2, Len(s)))

\* .replace(/\r/g, '\n')
ReplaceCR(s) == [i \in 1..Len(s) |-> IF s[i] = "\r" THEN "\n" ELSE s[i]]

\* .replace(/\t/g, '    ')
RECURSIVE ReplaceTab(_)
ReplaceTab(s) ==
    LET hits == {i \in 1..Len(s) : s[i] = "\t"}
    IN  IF hits = {} THEN s
        ELSE LET k == CHOOSE i \in hits : \A j \in hits : i <= j
             IN  SubSeq(s, 1, k - 1) \o <<" ", " ", " ", " ">>
                    \o ReplaceTab(SubSeq(s, k + 1, Len(s)))

----------------------------------------------------------------------------
(* chunker.ts *)

\* DEFAULT_OPTIONS.separators
DefaultSeparators ==
    << <<"\n", "\n">>, <<"\n">>, <<".", " ">>, <<"!", " ">>, <<"?", " ">>,
       <<";", " ">>, <<",", " ">>, <<" ">> >>

\* The width of the window searched for a separator (a literal of the loop)
SearchWindow == 200

\* estimateTokens(text), on the length of the text
estimateTokens(len) == (len + 3) \div 4

\* Clean and normalize text
NormalizeText(raw) == Trim(ReplaceTab(ReplaceCR(ReplaceCRLF(raw))))

\* One TextChunk
MakeChunk(content, index, start, end) ==
    [content |-> content, chunkIndex |-> index, startChar |-> start,
     endChar |-> end,
     metadata |-> [wordCount |-> WordCount(content),
                   tokenEstimate |-> estimateTokens(Len(content))]]

\* Mutant of SingleChunk: endChar is the offset of the last character
SingleChunk_EndAtLast(text) == << MakeChunk(text, 0, 0, Len(text) - 1) >>

\* The early return for a text that fits one chunk
SingleChunk(text) == << MakeChunk(text, 0, 0, Len(text)) >>

\* Mutant of WindowStart: the whole chunk is searched
WindowStart_WholeChunk(pos, size) == pos

\* Start of the search window of the chunk that starts at pos
WindowStart(pos, size) == Max(pos + size - SearchWindow, pos)

\* The offset after the last occurrence, in the window, of the first separator
\* (in preference order) that occurs in it, or -1
RECURSIVE BestBreakOffset(_, _)
BestBreakOffset(window, seps) ==
    IF seps = <<>> THEN -1
    ELSE LET lastIndex == LastIndexOf(window, Head(seps))
         IN  IF lastIndex # -1 THEN lastIndex + Len(Head(seps))
             ELSE BestBreakOffset(window, Tail(seps))

\* Mutant of EndPosition: the naive end is not cut at the end of the text
EndPosition_Unclamped(text, pos, size, seps) ==
    LET naive == pos + size
    IN  IF naive < Len(text)
        THEN LET ws == WindowStart(pos, size)
                 off == BestBreakOffset(Slice(text, ws, naive), seps)
             IN  IF off # -1 THEN ws + off ELSE naive
        ELSE naive

\* endPosition of the chunk that starts at pos
EndPosition(text, pos, size, seps) ==
    LET naive == Min(pos + size, Len(text))
    IN  IF naive < Len(text)
        THEN LET ws == WindowStart(pos, size)
                 off == BestBreakOffset(Slice(text, ws, naive), seps)
             IN  IF off # -1 THEN ws + off ELSE naive
        ELSE naive

\* Mutant of NextPosition: a position equal to the start of the last chunk is kept
NextPosition_StrictGuard(endPos, overlap, cs) ==
    LET moved == endPos - overlap
    IN  IF Len(cs) > 0 /\ moved < cs[Len(cs)].startChar THEN endPos ELSE moved

\* currentPosition after a chunk that ended at endPos; cs is the chunk list after
\* the push (chunks[chunks.length - 1]?.startChar is undefined on an empty list,
\* and a comparison with undefined is false)
\* Mutant of NextPosition: the next chunk starts one character after the boundary
NextPosition_SkipOne(endPos, overlap, cs) ==
    LET moved == endPos - overlap + 1
    IN  IF Len(cs) > 0 /\ moved <= cs[Len(cs)].startChar THEN endPos ELSE moved

\* Mutant of NextPosition: steps back by twice the overlap
NextPosition_DoubleOverlap(endPos, overlap, cs) ==
    LET moved == endPos - 2 * overlap
    IN  IF Len(cs) > 0 /\ moved <= cs[Len(cs)].startChar THEN endPos ELSE moved

NextPosition(endPos, overlap, cs) ==
    LET moved == endPos - overlap
    IN  IF Len(cs) > 0 /\ moved <= cs[Len(cs)].startChar THEN endPos ELSE moved

ChunkInputs ==
    UNION {[1..n -> Alphabet] : n \in 0..MaxTextLen}

\* No call is being repeated
NoPrevious ==
    [seen |-> FALSE, other |-> FALSE, text |-> <<>>, size |-> 1, overlap |-> 0,
     chunks |-> <<>>]

\* The call that just returned, remembered to be repeated
Remembered ==
    [seen |-> FALSE, other |-> FALSE, text |-> rawText, size |-> chunkSize,
     overlap |-> chunkOverlap, chunks |-> chunks]

\* Calls with other arguments made between a call and its repetition: they
\* leave the loop at a non-zero position and index
OtherCalls ==
    {[text |-> <<"a", "a", ".", " ", "a", "a">>, size |-> 3, overlap |-> 1],
     [text |-> <<"a", "\n", "a", "a", "a">>, size |-> 2, overlap |-> 0]}

ChunkIdle ==
    /\ rawText = <<>>
    /\ chunkSize = 1
    /\ chunkOverlap = 0
    /\ cleanedText = <<>>
    /\ currentPosition = 0
    /\ chunkIndex = 0
    /\ chunks = <<>>
    /\ loopTick = 0
    /\ cpc = "idle"
    /\ previous = NoPrevious

\* chunkText(text, {chunkSize, chunkOverlap}) up to the loop: normalisation, the
\* two early returns, and the locals of the loop (chunkIndex starts at index)
StartCall(text, size, overlap, index) ==
    LET t == NormalizeText(text)
    IN  /\ rawText' = text
        /\ chunkSize' = size
        /\ chunkOverlap' = overlap
        /\ cleanedText' = t
        /\ chunks' = IF t # <<>> /\ Len(t) <= size THEN SingleChunk(t) ELSE <<>>
        /\ currentPosition' = 0
        /\ chunkIndex' = index
        /\ cpc' = IF t = <<>> \/ Len(t) <= size THEN "done" ELSE "loop"

\* chunkText is called
ChunkStart ==
    /\ cpc = "idle"
    /\ \E text \in ChunkInputs, size \in 1..MaxChunkSize :
         \E overlap \in 0..(size - 1) : StartCall(text, size, overlap, 0)
    /\ UNCHANGED <<loopTick, previous, ragVars, transcriptVars, storeVars,
                   embedVars, mergeVars, formatVars, processRaceVars,
                   syncRaceVars>>

\* After a call returned, chunkText is called with other arguments
ChunkOther ==
    /\ cpc = "done"
    /\ ~previous.seen
    /\ ~previous.other
    /\ previous' = [Remembered EXCEPT !.other = TRUE]
    /\ \E call \in OtherCalls : StartCall(call.text, call.size, call.overlap, 0)
    /\ UNCHANGED <<loopTick, ragVars, transcriptVars, storeVars, embedVars,
                   mergeVars, formatVars, processRaceVars, syncRaceVars>>

\* Mutant of ChunkAgain: chunkIndex lives on from the call before
ChunkAgain_KeepsIndex ==
    /\ cpc = "done"
    /\ ~previous.seen
    /\ LET p == IF previous.other THEN previous ELSE Remembered
       IN  /\ previous' = [p EXCEPT !.seen = TRUE]
           /\ StartCall(p.text, p.size, p.overlap, chunkIndex)
    /\ UNCHANGED <<loopTick, ragVars, transcriptVars, storeVars, embedVars,
                   mergeVars, formatVars, processRaceVars, syncRaceVars>>

\* chunkText is called again with the arguments of an earlier call: the call
\* that just returned, or the one before a call with other arguments
ChunkAgain ==
    /\ cpc = "done"
    /\ ~previous.seen
    /\ LET p == IF previous.other THEN previous ELSE Remembered
       IN  /\ previous' = [p EXCEPT !.seen = TRUE]
           /\ StartCall(p.text, p.size, p.overlap, 0)
    /\ UNCHANGED <<loopTick, ragVars, transcriptVars, storeVars, embedVars,
                   mergeVars, formatVars, processRaceVars, syncRaceVars>>

\* One iteration of while (currentPosition < cleanedText.length)
ChunkLoop ==
    /\ cpc = "loop"
    /\ currentPosition < Len(cleanedText)
    /\ LET endPosition == EndPosition(cleanedText, currentPosition, chunkSize,
                                      DefaultSeparators)
           chunkContent == Trim(Slice(cleanedText, currentPosition, endPosition))
           pushed == IF chunkContent # <<>>
                     THEN Append(chunks, MakeChunk(chunkContent, chunkIndex,
                                                   currentPosition, endPosition))
                     ELSE chunks
       IN  /\ chunks' = pushed
           /\ chunkIndex' = IF chunkContent # <<>> THEN chunkIndex + 1 ELSE chunkIndex
           /\ currentPosition' = NextPosition(endPosition, chunkOverlap, pushed)
    /\ loopTick' = 1 - loopTick
    /\ UNCHANGED <<rawText, chunkSize, chunkOverlap, cleanedText, cpc, previous,
                   ragVars, transcriptVars, storeVars, embedVars, mergeVars,
                   formatVars, processRaceVars, syncRaceVars>>

\* The loop condition fails: return chunks
ChunkReturn ==
    /\ cpc = "loop"
    /\ currentPosition >= Len(cleanedText)
    /\ cpc' = "done"
    /\ UNCHANGED <<rawText, chunkSize, chunkOverlap, cleanedText, currentPosition,
                   chunkIndex, chunks, loopTick, previous,
                   ragVars, transcriptVars, storeVars, embedVars, mergeVars,
                   formatVars, processRaceVars, syncRaceVars>>

\* n times the letter "a"
Pad(n) == [i \in 1..n |-> "a"]

\* Texts longer than the search window: a separator near the start, a run of
\* letters about as long as the window, a separator or none, a few letters
LongChunkInputs ==
    { Pad(i) \o s1 \o Pad(SearchWindow - j) \o s2 \o Pad(3 * k) :
        i \in 0..MaxPad, j \in 1..3, k \in 1..2,
        s1 \in {<<"\n">>, <<".", " ">>, <<" ">>},
        s2 \in {<<>>, <<" ">>, <<"\n">>} }

\* chunkSize and chunkOverlap of the call in api/documents/process
ProcessChunkSize == 1500
ProcessChunkOverlap == 200

\* A text of 3200 characters with a paragraph break near character 1400
ScenarioText == Pad(1398) \o <<"\n", "\n">> \o Pad(1800)

\* The calls with long texts: a chunkSize just above the width of the search
\* window, and the call of api/documents/process on the scenario text
LongChunkCalls ==
    [text : LongChunkInputs, size : (SearchWindow + 1)..(SearchWindow + 2),
     overlap : {0, 2, SearchWindow}]
    \cup
    {[text |-> ScenarioText, size |-> ProcessChunkSize,
      overlap |-> ProcessChunkOverlap]}

\* chunkText(text, {chunkSize, chunkOverlap}) up to the loop, for a long text
ChunkStartLong ==
    /\ cpc = "idle"
    /\ \E call \in LongChunkCalls :
          StartCall(call.text, call.size, call.overlap, 0)
    /\ UNCHANGED <<loopTick, previous, ragVars, transcriptVars, storeVars,
                   embedVars, mergeVars, formatVars, processRaceVars,
                   syncRaceVars>>

----------------------------------------------------------------------------
(* lib/ai/rag: retrieveRelevantChunks and hybridSearch *)

\* An option that was not given
Undefined == "undefined"

\* options.documentIds: not given, or the ids
NoDocumentIds == [given |-> FALSE, ids |-> {}]
DocumentIds(ids) == [given |-> TRUE, ids |-> ids]

\* A metadata column: null is <<>>, an object m is <<m>>; a tokenEstimate the
\* object lacks reads as 0, which is as falsy as undefined
NullMetadata == <<>>
Metadata(m) == <<m>>

\* DEFAULT_OPTIONS.similarityThreshold, in hundredths
DefaultSimilarityThreshold == 70

\* The topK hybridSearch falls back to (ragOptions.topK || 5)
DefaultTopK == 5

\* Similarities are exact rationals num/den
Rat(n, d) == [num |-> n, den |-> d]
RatLess(a, b) == a.num * b.den < b.num * a.den
RatEq(a, b) == a.num * b.den = b.num * a.den

\* The documents table as the caller's session sees it (row level security hides
\* the documents of other partners; d3 is such a document)
Documents ==
    [d \in {"d1", "d2"} |->
        IF d = "d1" THEN [id |-> "d1", name |-> "Plan.pdf", partner_id |-> "p1"]
        ELSE [id |-> "d2", name |-> "Taxes.pdf", partner_id |-> "p2"]]

\* The rows of document_chunks the similarity search may return
\* (match_document_chunks is SECURITY DEFINER: it reads every partner's rows)
DocumentChunks ==
    << [id |-> 1, document_id |-> "d1", chunk_index |-> 0,
        content |-> <<"t", "a", "x", " ", "p", "l", "a", "n">>,
        metadata |-> Metadata([startChar |-> 0, endChar |-> 8, wordCount |-> 2,
                               tokenEstimate |-> 2])],
       [id |-> 2, document_id |-> "d1", chunk_index |-> 1,
        content |-> <<"m", "e", "m", "o">>,
        metadata |-> NullMetadata],
       [id |-> 3, document_id |-> "d2", chunk_index |-> 0,
        content |-> <<"T", "A", "X", "E", "S", " ", "d", "u", "e">>,
        metadata |-> Metadata([startChar |-> 0, endChar |-> 9, wordCount |-> 2,
                               tokenEstimate |-> 3])],
       [id |-> 4, document_id |-> "d3", chunk_index |-> 0,
        content |-> <<"p", "l", "a", "n">>,
        metadata |-> Metadata([startChar |-> 0, endChar |-> 4, wordCount |-> 1,
                               tokenEstimate |-> 0])] >>

\* The queries of the model: "taxes", "Taxes plan", "tax"
Queries ==
    { <<"t", "a", "x", "e", "s">>,
      <<"T", "a", "x", "e", "s", " ", "p", "l", "a", "n">>,
      <<"t", "a", "x">> }

\* Similarities the oracle reports, in hundredths, all above the threshold
SimLevels == {80, 90}

\* Sequences of distinct elements of S, of length at most n
DistinctSeqs(S, n) ==
    {q \in UNION {[1..k -> S] : k \in 0..n} :
        \A i, j \in 1..Len(q) : i # j => q[i] # q[j]}

\* What match_document_chunks may answer for match_count rows: distinct rows, each
\* with a similarity above the threshold, ordered by similarity descending
OracleResponses(match_count) ==
    LET limit == Min(Min(match_count, MaxMatched), Len(DocumentChunks))
        picks == DistinctSeqs(1..Len(DocumentChunks), limit)
    IN  UNION {
          { [i \in 1..Len(q) |->
                [id |-> DocumentChunks[q[i]].id,
                 document_id |-> DocumentChunks[q[i]].document_id,
                 content |-> DocumentChunks[q[i]].content,
                 chunk_index |-> DocumentChunks[q[i]].chunk_index,
                 metadata |-> DocumentChunks[q[i]].metadata,
                 similarity |-> Rat(sim[i], 100)]] :
            sim \in {f \in [1..Len(q) -> SimLevels] :
                        /\ \A i \in 1..Len(q) : f[i] > DefaultSimilarityThreshold
                        /\ \A i \in 1..(Len(q) - 1) : f[i] >= f[i + 1]} } :
          q \in picks }

\* chunk.metadata?.tokenEstimate || Math.ceil(chunk.content.length / 4)
ChunkTokens(chunk) ==
    IF chunk.metadata # NullMetadata /\ chunk.metadata[1].tokenEstimate # 0
    THEN chunk.metadata[1].tokenEstimate
    ELSE estimateTokens(Len(chunk.content))

\* opts.documentIds && !opts.documentIds.includes(chunk.document_id)
FailsDocumentFilter(chunk, o) ==
    o.documentIds.given /\ chunk.document_id \notin o.documentIds.ids

\* Mutant of FailsPartnerFilter: a row whose document was not found passes
FailsPartnerFilter_FoundOnly(chunk, o, dm) ==
    /\ o.partnerId # Undefined
    /\ chunk.document_id \in DOMAIN dm
    /\ dm[chunk.document_id].partner_id # o.partnerId

\* opts.partnerId && doc?.partner_id !== opts.partnerId
FailsPartnerFilter(chunk, o, dm) ==
    /\ o.partnerId # Undefined
    /\ \/ chunk.document_id \notin DOMAIN dm
       \/ dm[chunk.document_id].partner_id # o.partnerId

\* totalTokens + chunkTokens > opts.maxTokens
OverBudget(total, chunkTokens, maxTokens) == total + chunkTokens > maxTokens

\* The RetrievedChunk pushed for a matched row
Retrieved(chunk, dm, chunkTokens) ==
    [id |-> chunk.id,
     documentId |-> chunk.document_id,
     documentName |-> IF chunk.document_id \in DOMAIN dm
                      THEN dm[chunk.document_id].name ELSE "Unknown Document",
     content |-> chunk.content,
     similarity |-> chunk.similarity,
     chunkIndex |-> chunk.chunk_index,
     metadata |-> IF chunk.metadata # NullMetadata THEN chunk.metadata
                  ELSE Metadata([startChar |-> 0, endChar |-> Len(chunk.content),
                                 wordCount |-> WordCount(chunk.content),
                                 tokenEstimate |-> chunkTokens])]

\* for (const chunk of matchedChunks): the filters, the token budget, topK
RECURSIVE Walk(_, _, _, _, _)
Walk(rows, o, dm, total, acc) ==
    IF rows = <<>> THEN [chunks |-> acc, totalTokens |-> total]
    ELSE LET chunk == Head(rows)
             chunkTokens == ChunkTokens(chunk)
         IN  IF FailsDocumentFilter(chunk, o) THEN Walk(Tail(rows), o, dm, total, acc)
             ELSE IF FailsPartnerFilter(chunk, o, dm)
                  THEN Walk(Tail(rows), o, dm, total, acc)
             ELSE IF OverBudget(total, chunkTokens, o.maxTokens)
                  THEN [chunks |-> acc, totalTokens |-> total]
             ELSE LET pushed == Append(acc, Retrieved(chunk, dm, chunkTokens))
                  IN  IF Len(pushed) >= o.topK
                      THEN [chunks |-> pushed, totalTokens |-> total + chunkTokens]
                      ELSE Walk(Tail(rows), o, dm, total + chunkTokens, pushed)

\* .toLowerCase() on the letters of the model
ToLower(s) ==
    [i \in 1..Len(s) |->
        CASE s[i] = "T" -> "t" [] s[i] = "A" -> "a" [] s[i] = "X" -> "x"
          [] s[i] = "E" -> "e" [] s[i] = "S" -> "s" [] OTHER -> s[i]]

\* s.split(/\s+/): the maximal runs without white space (the empty strings that a
\* leading or trailing run of white space adds are shorter than any keyword)
RECURSIVE SplitWords(_, _)
SplitWords(s, word) ==
    IF s = <<>> THEN (IF word = <<>> THEN <<>> ELSE <<word>>)
    ELSE IF IsSpace(Head(s))
         THEN (IF word = <<>> THEN <<>> ELSE <<word>>) \o SplitWords(Tail(s), <<>>)
         ELSE SplitWords(Tail(s), Append(word, Head(s)))

\* query.toLowerCase().split(/\s+/).filter(word => word.length > 3)
Keywords(query) == SelectSeq(SplitWords(ToLower(query), <<>>), LAMBDA w : Len(w) > 3)

\* contentLower.includes(kw)
Includes(text, kw) == LastIndexOf(text, kw) # -1

\* keywords.filter(kw => contentLower.includes(kw)).length
KeywordMatches(content, keywords) ==
    Len(SelectSeq(keywords, LAMBDA kw : Includes(ToLower(content), kw)))

\* chunk.similarity * (1 - keywordBoost) + keywordScore * keywordBoost, with
\* keywordBoost in hundredths and keywordScore = matches / keywords.length, or 0
CombinedScore(similarity, matches, nKeywords, keywordBoost) ==
    IF nKeywords > 0
    THEN Rat(similarity.num * (100 - keywordBoost) * nKeywords
                + matches * keywordBoost * similarity.den,
             similarity.den * 100 * nKeywords)
    ELSE Rat(similarity.num * (100 - keywordBoost), similarity.den * 100)

\* Mutant of InsertDesc: a chunk goes before the chunks of equal score
RECURSIVE InsertDesc_TiesReversed(_, _)
InsertDesc_TiesReversed(sorted, x) ==
    IF sorted = <<>> THEN <<x>>
    ELSE IF ~RatLess(x.similarity, Head(sorted).similarity)
         THEN <<x>> \o sorted
         ELSE <<Head(sorted)>> \o InsertDesc_TiesReversed(Tail(sorted), x)

\* rerankedChunks.sort((a, b) => b.similarity - a.similarity): stable, descending
RECURSIVE InsertDesc(_, _)
InsertDesc(sorted, x) ==
    IF sorted = <<>> THEN <<x>>
    ELSE IF RatLess(Head(sorted).similarity, x.similarity)
         THEN <<x>> \o sorted
         ELSE <<Head(sorted)>> \o InsertDesc(Tail(sorted), x)

RECURSIVE SortDesc(_, _)
SortDesc(todo, sorted) ==
    IF todo = <<>> THEN sorted
    ELSE SortDesc(Tail(todo), InsertDesc(sorted, Head(todo)))

\* ragOptions.topK || 5
TopKOrDefault(topK) == IF topK = 0 THEN DefaultTopK ELSE topK

\* hybridSearch after retrieveRelevantChunks returned
HybridRerank(call, vr) ==
    IF Len(vr.chunks) = 0 THEN vr
    ELSE LET keywords == Keywords(call.query)
             reranked ==
                 [i \in 1..Len(vr.chunks) |->
                     [vr.chunks[i] EXCEPT !.similarity =
                         CombinedScore(vr.chunks[i].similarity,
                                       KeywordMatches(vr.chunks[i].content, keywords),
                                       Len(keywords), call.keywordBoost)]]
             topChunks == Slice(SortDesc(reranked, <<>>), 0,
                                TopKOrDefault(call.options.topK))
         IN  [chunks |-> topChunks, query |-> call.query,
              totalTokens |-> vr.totalTokens]

\* What the caller gets once retrieveRelevantChunks has returned vr
FinalResult(call, vr) ==
    IF call.fn = "hybridSearch" THEN HybridRerank(call, vr) ELSE vr

RagOptions ==
    [topK : 0..MaxTopK,
     maxTokens : 0..MaxBudget,
     documentIds : {NoDocumentIds, DocumentIds({"d1"})},
     partnerId : {Undefined, "p1"}]

RagCalls ==
    [fn : {"retrieveRelevantChunks"}, query : {<<"t", "a", "x">>},
     keywordBoost : {0}, options : RagOptions]
    \cup
    [fn : {"hybridSearch"}, query : Queries,
     keywordBoost : {0, 30}, options : RagOptions]

\* No call yet
NoOptions ==
    [topK |-> 0, maxTokens |-> 0, documentIds |-> NoDocumentIds,
     partnerId |-> Undefined]
NoResult == [chunks |-> <<>>, query |-> <<>>, totalTokens |-> 0]

\* Nothing sent yet
NoRequests == [embedding |-> 0, oracle |-> 0, documents |-> 0, failed |-> "none"]

\* One more request of a kind was sent
Sent(log, kind) == [log EXCEPT ![kind] = @ + 1]

\* One more request of a kind was sent and it failed
SentAndFailed(log, kind) == [log EXCEPT ![kind] = @ + 1, !.failed = kind]

RagIdle ==
    /\ ragCall = [fn |-> "none", query |-> <<>>, keywordBoost |-> 0,
                  options |-> NoOptions]
    /\ opts = NoOptions
    /\ queryEmbedding = [tokenCount |-> 0]
    /\ matchedChunks = <<>>
    /\ documentMap = << >>
    /\ vectorResults = NoResult
    /\ ragResult = NoResult
    /\ rpc = "idle"
    /\ ioLog = NoRequests

\* retrieveRelevantChunks(query, options), or hybridSearch(query, options) which
\* calls it with topK doubled, up to the await of generateEmbedding
RagCall ==
    /\ rpc = "idle"
    /\ \E call \in RagCalls :
          /\ ragCall' = call
          /\ opts' = IF call.fn = "hybridSearch"
                     THEN [call.options EXCEPT !.topK = TopKOrDefault(@) * 2]
                     ELSE call.options
    /\ rpc' = "embedding"
    /\ UNCHANGED <<queryEmbedding, matchedChunks, documentMap, vectorResults,
                   ragResult, ioLog, chunkVars, transcriptVars, storeVars,
                   embedVars, mergeVars, formatVars, processRaceVars,
                   syncRaceVars>>

\* generateEmbedding resolves; the rpc is sent
EmbedOk ==
    /\ rpc = "embedding"
    /\ \E n \in 1..MaxQueryTokens : queryEmbedding' = [tokenCount |-> n]
    /\ rpc' = "searching"
    /\ ioLog' = Sent(ioLog, "embedding")
    /\ UNCHANGED <<ragCall, opts, matchedChunks, documentMap, vectorResults,
                   ragResult, chunkVars, transcriptVars, storeVars, embedVars,
                   mergeVars, formatVars, processRaceVars, syncRaceVars>>

\* generateEmbedding rejects: the call rejects
EmbedFail ==
    /\ rpc = "embedding"
    /\ rpc' = "failed"
    /\ ioLog' = SentAndFailed(ioLog, "embedding")
    /\ UNCHANGED <<ragCall, opts, queryEmbedding, matchedChunks, documentMap,
                   vectorResults, ragResult,
                   chunkVars, transcriptVars, storeVars, embedVars, mergeVars,
                   formatVars, processRaceVars, syncRaceVars>>

\* Mutant of EmptyResult: the query's tokens are not counted
EmptyResult_NoTokens(query, embedding) ==
    [chunks |-> <<>>, query |-> query, totalTokens |-> 0]

\* return { chunks: [], query, totalTokens: queryEmbedding.tokenCount }
EmptyResult(query, embedding) ==
    [chunks |-> <<>>, query |-> query, totalTokens |-> embedding.tokenCount]

\* The rpc answers with rows; with none the call returns, otherwise the documents
\* are looked up
SearchOk ==
    /\ rpc = "searching"
    /\ \E rows \in OracleResponses(opts.topK * 2) :
          /\ matchedChunks' = rows
          /\ IF Len(rows) = 0
             THEN LET vr == EmptyResult(ragCall.query, queryEmbedding)
                  IN  /\ vectorResults' = vr
                      /\ ragResult' = FinalResult(ragCall, vr)
                      /\ rpc' = "done"
             ELSE /\ rpc' = "lookup"
                  /\ UNCHANGED <<vectorResults, ragResult>>
    /\ ioLog' = Sent(ioLog, "oracle")
    /\ UNCHANGED <<ragCall, opts, queryEmbedding, documentMap,
                   chunkVars, transcriptVars, storeVars, embedVars, mergeVars,
                   formatVars, processRaceVars, syncRaceVars>>

\* Mutant of SearchFail: the rpc is sent once more after its first error
SearchFail_Retry ==
    /\ rpc = "searching"
    /\ rpc' = IF ioLog.oracle = 0 THEN "searching" ELSE "failed"
    /\ ioLog' = IF ioLog.oracle = 0 THEN Sent(ioLog, "oracle")
                ELSE SentAndFailed(ioLog, "oracle")
    /\ UNCHANGED <<ragCall, opts, queryEmbedding, matchedChunks, documentMap,
                   vectorResults, ragResult,
                   chunkVars, transcriptVars, storeVars, embedVars, mergeVars,
                   formatVars, processRaceVars, syncRaceVars>>

\* The rpc answers with an error: the call throws
SearchFail ==
    /\ rpc = "searching"
    /\ rpc' = "failed"
    /\ ioLog' = SentAndFailed(ioLog, "oracle")
    /\ UNCHANGED <<ragCall, opts, queryEmbedding, matchedChunks, documentMap,
                   vectorResults, ragResult,
                   chunkVars, transcriptVars, storeVars, embedVars, mergeVars,
                   formatVars, processRaceVars, syncRaceVars>>

\* The documents query answers: the walk over matchedChunks and the return
LookupOk ==
    /\ rpc = "lookup"
    /\ LET ids == {matchedChunks[i].document_id : i \in 1..Len(matchedChunks)}
           dm == [d \in ids \cap DOMAIN Documents |-> Documents[d]]
           walked == Walk(matchedChunks, opts, dm, queryEmbedding.tokenCount, <<>>)
           vr == [chunks |-> walked.chunks, query |-> ragCall.query,
                  totalTokens |-> walked.totalTokens]
       IN  /\ documentMap' = dm
           /\ vectorResults' = vr
           /\ ragResult' = FinalResult(ragCall, vr)
    /\ rpc' = "done"
    /\ ioLog' = Sent(ioLog, "documents")
    /\ UNCHANGED <<ragCall, opts, queryEmbedding, matchedChunks,
                   chunkVars, transcriptVars, storeVars, embedVars, mergeVars,
                   formatVars, processRaceVars, syncRaceVars>>

\* The documents query answers with an error: the call throws
LookupFail ==
    /\ rpc = "lookup"
    /\ rpc' = "failed"
    /\ ioLog' = SentAndFailed(ioLog, "documents")
    /\ UNCHANGED <<ragCall, opts, queryEmbedding, matchedChunks, documentMap,
                   vectorResults, ragResult,
                   chunkVars, transcriptVars, storeVars, embedVars, mergeVars,
                   formatVars, processRaceVars, syncRaceVars>>

----------------------------------------------------------------------------
(* lib/fireflies sync: chunkTranscript *)

\* const { maxChunkSize = 1000, overlapSize = 200 } = options
DefaultMaxChunkSize == 1000
DefaultOverlapSize == 200

\* Characters per word assumed by Math.floor(overlapSize / 5)
CharsPerWord == 5

Digits == {"0", "1", "2", "3", "4", "5", "6", "7", "8", "9"}

\* s.indexOf(c) + 1 for a one-character c: the first position of c, 0 if none
FirstIndexOf(s, c) ==
    IF \E i \in 1..Len(s) : s[i] = c
    THEN CHOOSE i \in 1..Len(s) : s[i] = c /\ \A j \in 1..(i - 1) : s[j] # c
    ELSE 0

\* s.split(sep) for a one-character separator
RECURSIVE SplitOn(_, _)
SplitOn(s, sep) ==
    LET k == FirstIndexOf(s, sep)
    IN  IF k = 0 THEN <<s>>
        ELSE <<SubSeq(s, 1, k - 1)>> \o SplitOn(SubSeq(s, k + 1, Len(s)), sep)

\* parts.join(sep)
RECURSIVE JoinWith(_, _)
JoinWith(parts, sep) ==
    IF parts = <<>> THEN <<>>
    ELSE IF Len(parts) = 1 THEN parts[1]
    ELSE parts[1] \o <<sep>> \o JoinWith(Tail(parts), sep)

\* /^\d+$/
AllDigits(s) == s # <<>> /\ \A i \in 1..Len(s) : s[i] \in Digits

\* /^\d+:\d+(?::\d+)?$/
IsTimestamp(ts) ==
    LET parts == SplitOn(ts, ":")
    IN  /\ Len(parts) \in {2, 3}
        /\ \A i \in 1..Len(parts) : AllDigits(parts[i])

NoMatch == [matched |-> FALSE, timestamp |-> <<>>, speaker |-> <<>>, text |-> <<>>]

\* line.match(/^\[(\d+:\d+(?::\d+)?)\]\s*([^:]+):\s*(.*)$/): the timestamp runs to
\* the first "]", the speaker to the first ":" after it (the greedy \s* gives one
\* white-space character back when nothing else is left for the speaker), and
\* the text is the rest without its leading white space ("." matches no line
\* terminator)
SpeakerLine(line) ==
    LET close == FirstIndexOf(line, "]")
        rest  == SubSeq(line, close + 1, Len(line))
        colon == FirstIndexOf(rest, ":")
        pre   == SubSeq(rest, 1, colon - 1)
        text  == TrimLeft(SubSeq(rest, colon + 1, Len(rest)))
    IN  IF /\ line # <<>>
           /\ line[1] = "["
           /\ close > 0
           /\ IsTimestamp(SubSeq(line, 2, close - 1))
           /\ colon > 1
           /\ \A i \in 1..Len(text) : text[i] \notin {"\n", "\r"}
        THEN [matched   |-> TRUE,
              timestamp |-> SubSeq(line, 2, close - 1),
              speaker   |-> IF TrimLeft(pre) # <<>> THEN TrimLeft(pre)
                            ELSE <<pre[Len(pre)]>>,
              text      |-> text]
        ELSE NoMatch

\* { content, metadata: { timestamp, speaker } }; an undefined timestamp or
\* speaker is the empty sequence (a matched one is never empty)
TranscriptChunk(content, timestamp, speaker) ==
    [content |-> content, metadata |-> [timestamp |-> timestamp, speaker |-> speaker]]

\* words.slice(-Math.floor(overlapSize / 5)): the last n words, all of them when
\* n is 0 (slice(-0) is slice(0))
OverlapWords(words, overlap) ==
    LET n == overlap \div CharsPerWord
    IN  IF n = 0 THEN words
        ELSE SubSeq(words, Len(words) - Min(n, Len(words)) + 1, Len(words))

\* currentChunk.length + text.length > maxChunkSize && currentChunk.length > 0
MustFlush(buffer, text, maxSize) ==
    Len(buffer) + Len(text) > maxSize /\ Len(buffer) > 0

\* currentChunk = overlapWords.join(' ') + '\n'
OverlapStart(buffer, overlap) ==
    JoinWith(OverlapWords(SplitOn(buffer, " "), overlap), " ") \o <<"\n">>

\* The fallback loop over transcript.split(' '), and the push that follows it
RECURSIVE FallbackWalk(_, _, _, _, _)
FallbackWalk(words, chunk, acc, maxSize, overlap) ==
    IF words = <<>>
    THEN IF Trim(chunk) # <<>>
         THEN Append(acc, TranscriptChunk(Trim(chunk), <<>>, <<>>))
         ELSE acc
    ELSE LET word  == Head(words)
             flush == Len(chunk) + Len(word) + 1 > maxSize /\ Len(chunk) > 0
             acc2  == IF flush
                      THEN Append(acc, TranscriptChunk(Trim(chunk), <<>>, <<>>))
                      ELSE acc
             base  == IF flush
                      THEN JoinWith(OverlapWords(SplitOn(chunk, " "), overlap), " ")
                              \o <<" ">>
                      ELSE chunk
         IN  FallbackWalk(Tail(words), base \o word \o <<" ">>, acc2, maxSize, overlap)

\* The lines transcripts of the model are made of
TranscriptLines ==
    { <<"[", "0", ":", "0", "0", "]", " ", "A", "l", "i", "c", "e", ":", " ", "h", "i">>,
      <<"[", "0", ":", "0", "5", "]", " ", "B", "o", "b", ":", " ",
        "h", "e", "l", "l", "o", " ", "t", "h", "e", "r", "e">>,
      <<"[", "1", ":", "0", "2", ":", "0", "3", "]", "C", "y", ":", "o", "k">>,
      <<"[", "x", "]", " ", "n", "o", "t", "e">>,
      <<" ">> }

TranscriptInputs ==
    { JoinWith(ls, "\n") :
        ls \in UNION {[1..n -> TranscriptLines] : n \in 0..MaxLines} }

TranscriptSizes == {MinTranscriptSize, 2 * MinTranscriptSize, DefaultMaxChunkSize}

TranscriptOverlaps == {0, CharsPerWord, DefaultOverlapSize}

NoFirst == <<>>

TranscriptIdle ==
    /\ transcript = <<>>
    /\ maxChunkSize = DefaultMaxChunkSize
    /\ overlapSize = DefaultOverlapSize
    /\ lines = <<>>
    /\ lineIndex = 1
    /\ currentChunk = <<>>
    /\ currentTimestamp = <<>>
    /\ currentSpeaker = <<>>
    /\ transcriptChunks = <<>>
    /\ bufferFirst = NoFirst
    /\ chunkFirst = <<>>
    /\ tpc = "idle"

\* chunkTranscript(transcript, {maxChunkSize, overlapSize}) up to the loop
TranscriptStart ==
    /\ tpc = "idle"
    /\ \E t \in TranscriptInputs, size \in TranscriptSizes,
          overlap \in TranscriptOverlaps :
          /\ transcript' = t
          /\ maxChunkSize' = size
          /\ overlapSize' = overlap
          /\ lines' = SplitOn(t, "\n")
    /\ lineIndex' = 1
    /\ currentChunk' = <<>>
    /\ currentTimestamp' = <<>>
    /\ currentSpeaker' = <<>>
    /\ transcriptChunks' = <<>>
    /\ bufferFirst' = NoFirst
    /\ chunkFirst' = <<>>
    /\ tpc' = "lines"
    /\ UNCHANGED <<chunkVars, ragVars, storeVars, embedVars, mergeVars,
                   formatVars, processRaceVars, syncRaceVars>>

\* One iteration of for (const line of lines)
TranscriptLine ==
    /\ tpc = "lines"
    /\ lineIndex <= Len(lines)
    /\ LET line  == lines[lineIndex]
           match == SpeakerLine(line)
           flush == match.matched /\ MustFlush(currentChunk, match.text, maxChunkSize)
           first == <<[timestamp |-> match.timestamp, speaker |-> match.speaker]>>
       IN  /\ transcriptChunks' =
                 IF flush
                 THEN Append(transcriptChunks,
                             TranscriptChunk(Trim(currentChunk), currentTimestamp,
                                             currentSpeaker))
                 ELSE transcriptChunks
           /\ chunkFirst' = IF flush THEN Append(chunkFirst, bufferFirst)
                            ELSE chunkFirst
           /\ bufferFirst' = IF match.matched /\ (flush \/ bufferFirst = NoFirst)
                             THEN first ELSE bufferFirst
           /\ currentTimestamp' = IF match.matched /\ currentTimestamp = <<>>
                                  THEN match.timestamp ELSE currentTimestamp
           /\ currentSpeaker' = IF match.matched /\ currentTimestamp = <<>>
                                THEN match.speaker ELSE currentSpeaker
           /\ currentChunk' =
                 IF match.matched
                 THEN (IF flush THEN OverlapStart(currentChunk, overlapSize)
                       ELSE currentChunk)
                         \o match.speaker \o <<":", " ">> \o match.text \o <<"\n">>
                 ELSE IF Trim(line) # <<>>
                      THEN currentChunk \o line \o <<"\n">>
                      ELSE currentChunk
    /\ lineIndex' = lineIndex + 1
    /\ UNCHANGED <<transcript, maxChunkSize, overlapSize, lines, tpc,
                   chunkVars, ragVars, storeVars, embedVars, mergeVars,
                   formatVars, processRaceVars, syncRaceVars>>

\* After the loop: the remaining content, the fallback, return chunks
TranscriptFinish ==
    /\ tpc = "lines"
    /\ lineIndex > Len(lines)
    /\ LET rest   == Trim(currentChunk) # <<>>
           pushed == IF rest
                     THEN Append(transcriptChunks,
                                 TranscriptChunk(Trim(currentChunk), currentTimestamp,
                                                 currentSpeaker))
                     ELSE transcriptChunks
           fall   == pushed = <<>> /\ Len(transcript) > 0
           result == IF fall
                     THEN FallbackWalk(SplitOn(transcript, " "), <<>>, <<>>,
                                       maxChunkSize, overlapSize)
                     ELSE pushed
       IN  /\ transcriptChunks' = result
           /\ chunkFirst' = IF rest THEN Append(chunkFirst, bufferFirst)
                            ELSE IF fall THEN [i \in 1..Len(result) |-> NoFirst]
                            ELSE chunkFirst
    /\ tpc' = "done"
    /\ UNCHANGED <<transcript, maxChunkSize, overlapSize, lines, lineIndex,
                   currentChunk, currentTimestamp, currentSpeaker, bufferFirst,
                   chunkVars, ragVars, storeVars, embedVars, mergeVars,
                   formatVars, processRaceVars, syncRaceVars>>

----------------------------------------------------------------------------
(* Chunk persistence: api/documents/process (POST), syncMeeting, reembedMeeting,
   and a retrieval that reads the stored chunks *)

\* chunkRecords of one run: the rows of one chunk set, told apart by the run
ChunkRecords(by, run, n) ==
    {[by |-> by, run |-> run, chunk_index |-> i] : i \in 0..(n - 1)}

NoRecords == {}

NoObservation == [seen |-> FALSE, source |-> "none", rows |-> {}, replacing |-> FALSE,
                  old |-> {}]

NoReplace == [active |-> FALSE, old |-> {}]

StoreIdle ==
    /\ documentStatus = "pending"
    /\ storedDocumentChunks = {}
    /\ meetingSynced = FALSE
    /\ storedMeetingChunks = {}
    /\ processPc = "idle"
    /\ processRecords = NoRecords
    /\ syncPc = "idle"
    /\ reembedPc = "idle"
    /\ meetingRecords = NoRecords
    /\ runs = 0
    /\ documentReplace = NoReplace
    /\ meetingReplace = NoReplace
    /\ observed = NoObservation

\* POST: the document is fetched; a document that is 'ready' is refused
ProcessFetch ==
    /\ processPc = "idle"
    /\ runs < MaxRuns
    /\ runs' = runs + 1
    /\ IF documentStatus = "ready"
       THEN UNCHANGED <<processPc, documentReplace>>
       ELSE /\ processPc' = "fetched"
            /\ documentReplace' = [active |-> TRUE, old |-> storedDocumentChunks]
    /\ UNCHANGED <<documentStatus, storedDocumentChunks, meetingSynced, storedMeetingChunks,
                   processRecords, syncPc, reembedPc, meetingRecords, meetingReplace,
                   observed, chunkVars, ragVars, transcriptVars, embedVars,
                   mergeVars, formatVars, processRaceVars, syncRaceVars>>

\* update({ status: 'processing' }); its error is not read
ProcessMark ==
    /\ processPc = "fetched"
    /\ \E ok \in BOOLEAN :
          documentStatus' = IF ok THEN "processing" ELSE documentStatus
    /\ processPc' = "marked"
    /\ UNCHANGED <<storedDocumentChunks, meetingSynced, storedMeetingChunks, processRecords,
                   syncPc, reembedPc, meetingRecords, runs, documentReplace,
                   meetingReplace, observed,
                   chunkVars, ragVars, transcriptVars, embedVars, mergeVars,
                   formatVars, processRaceVars, syncRaceVars>>

\* Parsing, chunkText and generateEmbeddings gave the chunkRecords
ProcessEmbedOk ==
    /\ processPc = "marked"
    /\ \E n \in 1..MaxStoredChunks : processRecords' = ChunkRecords("process", runs, n)
    /\ processPc' = "embedded"
    /\ UNCHANGED <<documentStatus, storedDocumentChunks, meetingSynced, storedMeetingChunks,
                   syncPc, reembedPc, meetingRecords, runs, documentReplace,
                   meetingReplace, observed,
                   chunkVars, ragVars, transcriptVars, embedVars, mergeVars,
                   formatVars, processRaceVars, syncRaceVars>>

\* Parsing or generateEmbeddings threw, or there was no chunk: the catch block
\* sets the status 'error'
ProcessEmbedFail ==
    /\ processPc = "marked"
    /\ documentStatus' = "error"
    /\ processPc' = "idle"
    /\ documentReplace' = NoReplace
    /\ UNCHANGED <<storedDocumentChunks, meetingSynced, storedMeetingChunks, processRecords,
                   syncPc, reembedPc, meetingRecords, runs, meetingReplace,
                   observed, chunkVars, ragVars, transcriptVars, embedVars,
                   mergeVars, formatVars, processRaceVars, syncRaceVars>>

\* from('document_chunks').delete().eq('document_id', documentId); its error is
\* not read
ProcessDelete ==
    /\ processPc = "embedded"
    /\ \E ok \in BOOLEAN :
          storedDocumentChunks' = IF ok THEN {} ELSE storedDocumentChunks
    /\ processPc' = "deleted"
    /\ UNCHANGED <<documentStatus, meetingSynced, storedMeetingChunks, processRecords,
                   syncPc, reembedPc, meetingRecords, runs, documentReplace,
                   meetingReplace, observed,
                   chunkVars, ragVars, transcriptVars, embedVars, mergeVars,
                   formatVars, processRaceVars, syncRaceVars>>

\* from('document_chunks').insert(chunkRecords); insertError is thrown and the
\* catch block sets the status 'error'
ProcessInsert ==
    /\ processPc = "deleted"
    /\ \E ok \in BOOLEAN :
          IF ok
          THEN /\ storedDocumentChunks' = storedDocumentChunks \union processRecords
               /\ processPc' = "inserted"
               /\ UNCHANGED <<documentStatus, documentReplace>>
          ELSE /\ documentStatus' = "error"
               /\ processPc' = "idle"
               /\ documentReplace' = NoReplace
               /\ UNCHANGED storedDocumentChunks
    /\ UNCHANGED <<meetingSynced, storedMeetingChunks, processRecords, syncPc, reembedPc,
                   meetingRecords, runs, meetingReplace, observed,
                   chunkVars, ragVars, transcriptVars, embedVars, mergeVars,
                   formatVars, processRaceVars, syncRaceVars>>

\* update({ status: 'ready', metadata }); its error is not read; the response
ProcessReady ==
    /\ processPc = "inserted"
    /\ \E ok \in BOOLEAN :
          documentStatus' = IF ok THEN "ready" ELSE documentStatus
    /\ processPc' = "idle"
    /\ documentReplace' = NoReplace
    /\ UNCHANGED <<storedDocumentChunks, meetingSynced, storedMeetingChunks, processRecords,
                   syncPc, reembedPc, meetingRecords, runs, meetingReplace,
                   observed, chunkVars, ragVars, transcriptVars, embedVars,
                   mergeVars, formatVars, processRaceVars, syncRaceVars>>

\* syncMeeting: no meeting with this fireflies_id yet; the meeting is inserted
SyncInsertMeeting ==
    /\ syncPc = "idle"
    /\ ~meetingSynced
    /\ runs < MaxRuns
    /\ runs' = runs + 1
    /\ meetingSynced' = TRUE
    /\ syncPc' = "embedding"
    /\ UNCHANGED <<documentStatus, storedDocumentChunks, storedMeetingChunks, processPc,
                   processRecords, reembedPc, meetingRecords, documentReplace,
                   meetingReplace, observed,
                   chunkVars, ragVars, transcriptVars, embedVars, mergeVars,
                   formatVars, processRaceVars, syncRaceVars>>

\* syncMeeting: generateEmbeddings, then insert(chunkRecords); a chunksError is
\* logged only
SyncInsertChunks ==
    /\ syncPc = "embedding"
    /\ \E n \in 1..MaxStoredChunks, ok \in BOOLEAN :
          storedMeetingChunks' = IF ok THEN storedMeetingChunks \union ChunkRecords("sync", runs, n)
                           ELSE storedMeetingChunks
    /\ syncPc' = "idle"
    /\ UNCHANGED <<documentStatus, storedDocumentChunks, meetingSynced, processPc,
                   processRecords, reembedPc, meetingRecords, runs, documentReplace,
                   meetingReplace, observed,
                   chunkVars, ragVars, transcriptVars, embedVars, mergeVars,
                   formatVars, processRaceVars, syncRaceVars>>

\* syncMeeting: generateEmbeddings threw; the meeting stays without chunks
SyncEmbedFail ==
    /\ syncPc = "embedding"
    /\ syncPc' = "idle"
    /\ UNCHANGED <<documentStatus, storedDocumentChunks, meetingSynced, storedMeetingChunks,
                   processPc, processRecords, reembedPc, meetingRecords, runs,
                   documentReplace, meetingReplace, observed,
                   chunkVars, ragVars, transcriptVars, embedVars, mergeVars,
                   formatVars, processRaceVars, syncRaceVars>>

\* reembedMeeting: the meeting is fetched ('Meeting not found' otherwise)
ReembedFetch ==
    /\ reembedPc = "idle"
    /\ runs < MaxRuns
    /\ runs' = runs + 1
    /\ IF meetingSynced
       THEN /\ reembedPc' = "fetched"
            /\ meetingReplace' = [active |-> TRUE, old |-> storedMeetingChunks]
       ELSE UNCHANGED <<reembedPc, meetingReplace>>
    /\ UNCHANGED <<documentStatus, storedDocumentChunks, meetingSynced, storedMeetingChunks,
                   processPc, processRecords, syncPc, meetingRecords,
                   documentReplace, observed,
                   chunkVars, ragVars, transcriptVars, embedVars, mergeVars,
                   formatVars, processRaceVars, syncRaceVars>>

\* from('meeting_chunks').delete().eq('meeting_id', meetingId); its error is not
\* read
ReembedDelete ==
    /\ reembedPc = "fetched"
    /\ \E ok \in BOOLEAN :
          storedMeetingChunks' = IF ok THEN {} ELSE storedMeetingChunks
    /\ reembedPc' = "deleted"
    /\ UNCHANGED <<documentStatus, storedDocumentChunks, meetingSynced, processPc,
                   processRecords, syncPc, meetingRecords, runs, documentReplace,
                   meetingReplace, observed,
                   chunkVars, ragVars, transcriptVars, embedVars, mergeVars,
                   formatVars, processRaceVars, syncRaceVars>>

\* chunkTranscript and generateEmbeddings gave the chunkRecords
ReembedEmbedOk ==
    /\ reembedPc = "deleted"
    /\ \E n \in 1..MaxStoredChunks : meetingRecords' = ChunkRecords("reembed", runs, n)
    /\ reembedPc' = "embedded"
    /\ UNCHANGED <<documentStatus, storedDocumentChunks, meetingSynced, storedMeetingChunks,
                   processPc, processRecords, syncPc, runs, documentReplace,
                   meetingReplace, observed,
                   chunkVars, ragVars, transcriptVars, embedVars, mergeVars,
                   formatVars, processRaceVars, syncRaceVars>>

\* There was no chunk, or generateEmbeddings threw: the function returns
ReembedEmbedFail ==
    /\ reembedPc = "deleted"
    /\ reembedPc' = "idle"
    /\ meetingReplace' = NoReplace
    /\ UNCHANGED <<documentStatus, storedDocumentChunks, meetingSynced, storedMeetingChunks,
                   processPc, processRecords, syncPc, meetingRecords, runs,
                   documentReplace, observed,
                   chunkVars, ragVars, transcriptVars, embedVars, mergeVars,
                   formatVars, processRaceVars, syncRaceVars>>

\* from('meeting_chunks').insert(chunkRecords), and the return either way
ReembedInsert ==
    /\ reembedPc = "embedded"
    /\ \E ok \in BOOLEAN :
          storedMeetingChunks' = IF ok THEN storedMeetingChunks \union meetingRecords
                           ELSE storedMeetingChunks
    /\ reembedPc' = "idle"
    /\ meetingReplace' = NoReplace
    /\ UNCHANGED <<documentStatus, storedDocumentChunks, meetingSynced, processPc,
                   processRecords, syncPc, meetingRecords, runs, documentReplace,
                   observed, chunkVars, ragVars, transcriptVars, embedVars,
                   mergeVars, formatVars, processRaceVars, syncRaceVars>>

\* A retrieval reads the chunks stored for the document
RetrieveDocument ==
    /\ observed' = [seen |-> TRUE, source |-> "document", rows |-> storedDocumentChunks,
                    replacing |-> documentReplace.active,
                    old |-> documentReplace.old]
    /\ UNCHANGED <<documentStatus, storedDocumentChunks, meetingSynced, storedMeetingChunks,
                   processPc, processRecords, syncPc, reembedPc, meetingRecords,
                   runs, documentReplace, meetingReplace,
                   chunkVars, ragVars, transcriptVars, embedVars, mergeVars,
                   formatVars, processRaceVars, syncRaceVars>>

\* A retrieval reads the chunks stored for the meeting
RetrieveMeeting ==
    /\ observed' = [seen |-> TRUE, source |-> "meeting", rows |-> storedMeetingChunks,
                    replacing |-> meetingReplace.active,
                    old |-> meetingReplace.old]
    /\ UNCHANGED <<documentStatus, storedDocumentChunks, meetingSynced, storedMeetingChunks,
                   processPc, processRecords, syncPc, reembedPc, meetingRecords,
                   runs, documentReplace, meetingReplace,
                   chunkVars, ragVars, transcriptVars, embedVars, mergeVars,
                   formatVars, processRaceVars, syncRaceVars>>

----------------------------------------------------------------------------
(* lib/ai/embeddings: generateEmbeddings *)

\* The texts of the model
TextPool == {"t1", "t2"}

\* What the provider answers for one text: its embedding, and the tokens it
\* counts for it
EmbeddingOf(t) == [of |-> t]
TextTokens(t) == IF t = "t1" THEN 1 ELSE 3

RECURSIVE TotalTokens(_)
TotalTokens(batch) ==
    IF batch = <<>> THEN 0 ELSE TextTokens(Head(batch)) + TotalTokens(Tail(batch))

\* Math.ceil(a / b)
CeilDiv(a, b) == (a + b - 1) \div b

\* Mutant of NextBatch: the slice takes one text more
NextBatch_OneMore(ts, i, size) == Slice(ts, i, i + size + 1)

\* texts.slice(i, i + batchSize)
NextBatch(ts, i, size) == Slice(ts, i, i + size)

\* response.data.map(...): one result per item of the response, which holds one
\* item per input of the batch in the order of the inputs
BatchResults(batch) ==
    [k \in 1..Len(batch) |->
        [embedding |-> EmbeddingOf(batch[k]),
         tokenCount |-> CeilDiv(TotalTokens(batch), Len(batch))]]

\* The promise of generateEmbeddings is not resolved
NoReturn == [resolved |-> FALSE, value |-> <<>>]

EmbedIdle ==
    /\ texts = <<>>
    /\ batchSize = 1
    /\ batchStart = 0
    /\ results = <<>>
    /\ pendingCalls = 0
    /\ sentBatches = <<>>
    /\ embeddingsReturn = NoReturn
    /\ epc = "idle"

\* generateEmbeddings(texts, batchSize) up to the loop
EmbeddingsStart ==
    /\ epc = "idle"
    /\ \E ts \in UNION {[1..n -> TextPool] : n \in 0..MaxTexts},
          size \in 1..MaxBatchSize :
          /\ texts' = ts
          /\ batchSize' = size
    /\ batchStart' = 0
    /\ results' = <<>>
    /\ epc' = "loop"
    /\ UNCHANGED <<pendingCalls, sentBatches, embeddingsReturn,
                   chunkVars, ragVars, transcriptVars, storeVars, mergeVars,
                   formatVars, processRaceVars, syncRaceVars>>

\* i < texts.length: the batch is cut and embeddings.create is called
EmbeddingsSend ==
    /\ epc = "loop"
    /\ batchStart < Len(texts)
    /\ sentBatches' = Append(sentBatches, NextBatch(texts, batchStart, batchSize))
    /\ pendingCalls' = pendingCalls + 1
    /\ epc' = "awaiting"
    /\ UNCHANGED <<texts, batchSize, batchStart, results, embeddingsReturn,
                   chunkVars, ragVars, transcriptVars, storeVars, mergeVars,
                   formatVars, processRaceVars, syncRaceVars>>

\* The awaited call resolves: results.push(...batchResults), i += batchSize
EmbeddingsBatchOk ==
    /\ epc = "awaiting"
    /\ results' = results \o BatchResults(sentBatches[Len(sentBatches)])
    /\ batchStart' = batchStart + batchSize
    /\ pendingCalls' = pendingCalls - 1
    /\ epc' = "loop"
    /\ UNCHANGED <<texts, batchSize, sentBatches, embeddingsReturn,
                   chunkVars, ragVars, transcriptVars, storeVars, mergeVars,
                   formatVars, processRaceVars, syncRaceVars>>

\* The awaited call rejects: generateEmbeddings rejects, results is dropped
EmbeddingsBatchFail ==
    /\ epc = "awaiting"
    /\ pendingCalls' = pendingCalls - 1
    /\ epc' = "failed"
    /\ UNCHANGED <<texts, batchSize, batchStart, results, sentBatches,
                   embeddingsReturn, chunkVars, ragVars, transcriptVars, storeVars,
                   mergeVars, formatVars, processRaceVars, syncRaceVars>>

\* i >= texts.length: return results
EmbeddingsReturn ==
    /\ epc = "loop"
    /\ batchStart >= Len(texts)
    /\ embeddingsReturn' = [resolved |-> TRUE, value |-> results]
    /\ epc' = "done"
    /\ UNCHANGED <<texts, batchSize, batchStart, results, pendingCalls, sentBatches,
                   chunkVars, ragVars, transcriptVars, storeVars, mergeVars,
                   formatVars, processRaceVars, syncRaceVars>>

----------------------------------------------------------------------------
(* lib/documents/chunker: mergeSmallChunks *)

\* Chunk contents of the model: 1, 2 and 4 characters
MergeContents == {<<"a">>, <<"b", "b">>, <<"c", " ", "c", "c">>}

\* The chunks chunkText would emit for these contents, one after the other with
\* one character between them
RECURSIVE ChunksOf(_, _, _)
ChunksOf(contents, index, start) ==
    IF contents = <<>> THEN <<>>
    ELSE <<MakeChunk(Head(contents), index, start, start + Len(Head(contents)))>>
            \o ChunksOf(Tail(contents), index + 1, start + Len(Head(contents)) + 1)

MergeInputs ==
    {ChunksOf(cs, 0, 0) :
        cs \in UNION {[1..n -> MergeContents] : n \in 0..MaxMergeChunks}}

\* currentChunk = {...currentChunk, content: ... + '\n\n' + chunk.content, ...}
MergedWith(current, chunk) ==
    LET content == current.content \o <<"\n", "\n">> \o chunk.content
    IN  [current EXCEPT
            !.content = content,
            !.endChar = chunk.endChar,
            !.metadata = [wordCount |-> current.metadata.wordCount
                                           + chunk.metadata.wordCount,
                          tokenEstimate |-> estimateTokens(Len(content))]]

\* for (const chunk of chunks) after the first chunk became currentChunk, and
\* the push of the last currentChunk
RECURSIVE MergeWalk(_, _, _, _)
MergeWalk(rest, current, merged, size) ==
    IF rest = <<>> THEN Append(merged, current)
    ELSE IF Len(current.content) < size
         THEN MergeWalk(Tail(rest), MergedWith(current, Head(rest)), merged, size)
         ELSE MergeWalk(Tail(rest), Head(rest), Append(merged, current), size)

\* merged.map((chunk, index) => ({...chunk, chunkIndex: index}))
Reindexed(cs) == [i \in 1..Len(cs) |-> [cs[i] EXCEPT !.chunkIndex = i - 1]]

\* mergeSmallChunks(chunks, minSize)
mergeSmallChunks(cs, size) ==
    IF Len(cs) <= 1 THEN cs
    ELSE Reindexed(MergeWalk(Tail(cs), Head(cs), <<>>, size))

MergeIdle ==
    /\ mergeInput = <<>>
    /\ minSize = 1
    /\ mergeOutput = <<>>
    /\ mpc = "idle"

\* One call of mergeSmallChunks
MergeCall ==
    /\ mpc = "idle"
    /\ \E cs \in MergeInputs, size \in 1..MaxMinSize :
          /\ mergeInput' = cs
          /\ minSize' = size
          /\ mergeOutput' = mergeSmallChunks(cs, size)
    /\ mpc' = "done"
    /\ UNCHANGED <<chunkVars, ragVars, transcriptVars, storeVars, embedVars,
                   formatVars, processRaceVars, syncRaceVars>>

----------------------------------------------------------------------------
(* lib/ai/rag: formatChunksForContext *)

\* 'No relevant documents found.'
NoDocumentsSentinel ==
    << "N", "o", " ", "r", "e", "l", "e", "v", "a", "n", "t", " ", "d", "o",
       "c", "u", "m", "e", "n", "t", "s", " ", "f", "o", "u", "n", "d", "." >>

\* 'Here is the relevant information from the uploaded documents:\n\n'
ContextHeader ==
    << "H", "e", "r", "e", " ", "i", "s", " ", "t", "h", "e", " ", "r", "e",
       "l", "e", "v", "a", "n", "t", " ", "i", "n", "f", "o", "r", "m", "a",
       "t", "i", "o", "n", " ", "f", "r", "o", "m", " ", "t", "h", "e", " ",
       "u", "p", "l", "o", "a", "d", "e", "d", " ", "d", "o", "c", "u", "m",
       "e", "n", "t", "s", ":", "\n", "\n" >>

\* '\n\nUse the above sources to answer the question. Always cite which source
\* you're referencing.'
ContextFooter ==
    << "\n", "\n", "U", "s", "e", " ", "t", "h", "e", " ", "a", "b", "o", "v",
       "e", " ", "s", "o", "u", "r", "c", "e", "s", " ", "t", "o", " ", "a",
       "n", "s", "w", "e", "r", " ", "t", "h", "e", " ", "q", "u", "e", "s",
       "t", "i", "o", "n", ".", " ", "A", "l", "w", "a", "y", "s", " ", "c",
       "i", "t", "e", " ", "w", "h", "i", "c", "h", " ", "s", "o", "u", "r",
       "c", "e", " ", "y", "o", "u", "'", "r", "e", " ", "r", "e", "f", "e",
       "r", "e", "n", "c", "i", "n", "g", "." >>

\* The decimal digits of a number, as template literals print it
DecimalDigit(d) ==
    CASE d = 0 -> "0" [] d = 1 -> "1" [] d = 2 -> "2" [] d = 3 -> "3" [] d = 4 -> "4"
      [] d = 5 -> "5" [] d = 6 -> "6" [] d = 7 -> "7" [] d = 8 -> "8" [] OTHER -> "9"

RECURSIVE Decimal(_)
Decimal(n) ==
    IF n < 10 THEN <<DecimalDigit(n)>>
    ELSE Append(Decimal(n \div 10), DecimalDigit(n % 10))

\* Mutant of SourcePart: the source number is the index of the chunk
SourcePart_ZeroBased(chunk, index) ==
    <<"[", "S", "o", "u", "r", "c", "e", " ">> \o Decimal(index) \o <<":", " ">>
        \o chunk.documentName \o <<" ", "(", "C", "h", "u", "n", "k", " ">>
        \o Decimal(chunk.chunkIndex + 1) \o <<")", "]", "\n">>
        \o chunk.content \o <<"\n", "-", "-", "-">>

\* `[Source ${index + 1}: ${chunk.documentName} (Chunk ${chunk.chunkIndex + 1})]
\* ${chunk.content}
\* ---`
SourcePart(chunk, index) ==
    <<"[", "S", "o", "u", "r", "c", "e", " ">> \o Decimal(index + 1) \o <<":", " ">>
        \o chunk.documentName \o <<" ", "(", "C", "h", "u", "n", "k", " ">>
        \o Decimal(chunk.chunkIndex + 1) \o <<")", "]", "\n">>
        \o chunk.content \o <<"\n", "-", "-", "-">>

\* contextParts.join('\n\n')
RECURSIVE JoinParts(_)
JoinParts(parts) ==
    IF parts = <<>> THEN <<>>
    ELSE IF Len(parts) = 1 THEN parts[1]
    ELSE parts[1] \o <<"\n", "\n">> \o JoinParts(Tail(parts))

\* formatChunksForContext(chunks)
formatChunksForContext(cs) ==
    IF Len(cs) = 0 THEN NoDocumentsSentinel
    ELSE ContextHeader
            \o JoinParts([i \in 1..Len(cs) |-> SourcePart(cs[i], i - 1)])
            \o ContextFooter

\* The retrieved chunks of the model, by the fields the function reads: two
\* document names, chunk_index 0 and 9, and two contents, one of them of two
\* lines with a rule of its own
FormatChunks ==
    [documentName : {<<"P", ".", "p", "d", "f">>, <<"T", "a", "x">>},
     chunkIndex : {0, 9},
     content : {<<"t", "a", "x">>, <<"a", "\n", "-", "-", "-", "\n", "b">>}]

FormatIdle ==
    /\ formatInput = <<>>
    /\ formatOutput = <<>>
    /\ fpc = "idle"

\* One call of formatChunksForContext
FormatCall ==
    /\ fpc = "idle"
    /\ \E cs \in UNION {[1..n -> FormatChunks] : n \in 0..MaxFormatChunks} :
          /\ formatInput' = cs
          /\ formatOutput' = formatChunksForContext(cs)
    /\ fpc' = "done"
    /\ UNCHANGED <<chunkVars, ragVars, transcriptVars, storeVars, embedVars,
                   mergeVars, processRaceVars, syncRaceVars>>

----------------------------------------------------------------------------
(* api/documents/process (POST): two requests for the same document *)

Requests == {1, 2}

\* chunkRecords of a request: one row per chunk; the rows of two requests are
\* different rows (each gets an id of its own) with the same chunk_index values
RequestRecords(r, n) == {[by |-> r, chunk_index |-> i] : i \in 0..(n - 1)}

ProcessRaceIdle ==
    /\ docStatus = "pending"
    /\ docChunkRows = {}
    /\ docChunkCount = 0
    /\ postPc = [r \in Requests |-> "idle"]

\* The document is fetched; a document that is 'ready' is refused
PostFetch(r) ==
    /\ postPc[r] = "idle"
    /\ postPc' = [postPc EXCEPT ![r] = IF docStatus = "ready" THEN "refused"
                                       ELSE "fetched"]
    /\ UNCHANGED <<docStatus, docChunkRows, docChunkCount>>
    /\ UNCHANGED <<chunkVars, ragVars, transcriptVars, storeVars, embedVars,
                   mergeVars, formatVars, syncRaceVars>>

\* update({ status: 'processing' }); its error is not read
PostMark(r) ==
    /\ postPc[r] = "fetched"
    /\ \E ok \in BOOLEAN : docStatus' = IF ok THEN "processing" ELSE docStatus
    /\ postPc' = [postPc EXCEPT ![r] = "marked"]
    /\ UNCHANGED <<docChunkRows, docChunkCount>>
    /\ UNCHANGED <<chunkVars, ragVars, transcriptVars, storeVars, embedVars,
                   mergeVars, formatVars, syncRaceVars>>

\* Parsing, chunkText and generateEmbeddings gave the chunkRecords: the same
\* number of chunks for both requests, as they read the same file
PostEmbedOk(r) ==
    /\ postPc[r] = "marked"
    /\ \E n \in 1..MaxStoredChunks :
          /\ docChunkCount \in {0, n}
          /\ docChunkCount' = n
    /\ postPc' = [postPc EXCEPT ![r] = "embedded"]
    /\ UNCHANGED <<docStatus, docChunkRows>>
    /\ UNCHANGED <<chunkVars, ragVars, transcriptVars, storeVars, embedVars,
                   mergeVars, formatVars, syncRaceVars>>

\* Parsing or generateEmbeddings threw: the catch block sets the status 'error'
PostEmbedFail(r) ==
    /\ postPc[r] = "marked"
    /\ docStatus' = "error"
    /\ postPc' = [postPc EXCEPT ![r] = "failed"]
    /\ UNCHANGED <<docChunkRows, docChunkCount>>
    /\ UNCHANGED <<chunkVars, ragVars, transcriptVars, storeVars, embedVars,
                   mergeVars, formatVars, syncRaceVars>>

\* from('document_chunks').delete().eq('document_id', documentId); its error is
\* not read
PostDelete(r) ==
    /\ postPc[r] = "embedded"
    /\ \E ok \in BOOLEAN : docChunkRows' = IF ok THEN {} ELSE docChunkRows
    /\ postPc' = [postPc EXCEPT ![r] = "deleted"]
    /\ UNCHANGED <<docStatus, docChunkCount>>
    /\ UNCHANGED <<chunkVars, ragVars, transcriptVars, storeVars, embedVars,
                   mergeVars, formatVars, syncRaceVars>>

\* from('document_chunks').insert(chunkRecords); insertError is thrown and the
\* catch block sets the status 'error'
PostInsert(r) ==
    /\ postPc[r] = "deleted"
    /\ \E ok \in BOOLEAN :
          IF ok
          THEN /\ docChunkRows' = docChunkRows \union RequestRecords(r, docChunkCount)
               /\ postPc' = [postPc EXCEPT ![r] = "inserted"]
               /\ UNCHANGED docStatus
          ELSE /\ docStatus' = "error"
               /\ postPc' = [postPc EXCEPT ![r] = "failed"]
               /\ UNCHANGED docChunkRows
    /\ UNCHANGED docChunkCount
    /\ UNCHANGED <<chunkVars, ragVars, transcriptVars, storeVars, embedVars,
                   mergeVars, formatVars, syncRaceVars>>

\* update({ status: 'ready', metadata }); its error is not read; the response
PostReady(r) ==
    /\ postPc[r] = "inserted"
    /\ \E ok \in BOOLEAN : docStatus' = IF ok THEN "ready" ELSE docStatus
    /\ postPc' = [postPc EXCEPT ![r] = "finished"]
    /\ UNCHANGED <<docChunkRows, docChunkCount>>
    /\ UNCHANGED <<chunkVars, ragVars, transcriptVars, storeVars, embedVars,
                   mergeVars, formatVars, syncRaceVars>>

----------------------------------------------------------------------------
(* lib/fireflies sync: two syncMeeting calls with the same firefliesId *)

Calls == {1, 2}

\* What syncMeeting returns: { success, chunksCreated } and whether the error
\* is 'Meeting already synced'
SyncReturn(success, created, already) ==
    [returned |-> TRUE, success |-> success, chunksCreated |-> created,
     alreadySynced |-> already]

NoSyncReturn ==
    [returned |-> FALSE, success |-> FALSE, chunksCreated |-> 0,
     alreadySynced |-> FALSE]

\* The catch block: { success: false, chunksCreated: 0, error }
SyncFailure == SyncReturn(FALSE, 0, FALSE)

SyncRaceIdle ==
    /\ meetingsRows = {}
    /\ meetingChunkRows = {}
    /\ syncCallPc = [c \in Calls |-> "idle"]
    /\ syncCallChunks = [c \in Calls |-> 0]
    /\ syncCallReturn = [c \in Calls |-> NoSyncReturn]
    /\ syncCallPersisted = [c \in Calls |-> 0]

\* The select of an existing meeting; 'Meeting already synced' if there is one
SyncCheck(c) ==
    /\ syncCallPc[c] = "idle"
    /\ IF meetingsRows # {}
       THEN /\ syncCallReturn' = [syncCallReturn EXCEPT ![c] = SyncReturn(TRUE, 0, TRUE)]
            /\ syncCallPc' = [syncCallPc EXCEPT ![c] = "done"]
       ELSE /\ syncCallPc' = [syncCallPc EXCEPT ![c] = "checked"]
            /\ UNCHANGED syncCallReturn
    /\ UNCHANGED <<meetingsRows, meetingChunkRows, syncCallChunks, syncCallPersisted>>
    /\ UNCHANGED <<chunkVars, ragVars, transcriptVars, storeVars, embedVars,
                   mergeVars, formatVars, processRaceVars>>

\* client.getTranscript(firefliesId) resolves, or rejects into the catch block
SyncGetTranscript(c) ==
    /\ syncCallPc[c] = "checked"
    /\ \E ok \in BOOLEAN :
          IF ok
          THEN /\ syncCallPc' = [syncCallPc EXCEPT ![c] = "fetched"]
               /\ UNCHANGED syncCallReturn
          ELSE /\ syncCallPc' = [syncCallPc EXCEPT ![c] = "done"]
               /\ syncCallReturn' = [syncCallReturn EXCEPT ![c] = SyncFailure]
    /\ UNCHANGED <<meetingsRows, meetingChunkRows, syncCallChunks, syncCallPersisted>>
    /\ UNCHANGED <<chunkVars, ragVars, transcriptVars, storeVars, embedVars,
                   mergeVars, formatVars, processRaceVars>>

\* from('meetings').insert(...): fireflies_id is UNIQUE, so the insert of a
\* second row answers with an error, as any failed insert does; meetingError is
\* thrown into the catch block
SyncInsertRow(c) ==
    /\ syncCallPc[c] = "fetched"
    /\ \E ok \in BOOLEAN :
          IF ok /\ meetingsRows = {}
          THEN /\ meetingsRows' = {c}
               /\ syncCallPc' = [syncCallPc EXCEPT ![c] = "inserted"]
               /\ UNCHANGED syncCallReturn
          ELSE /\ syncCallPc' = [syncCallPc EXCEPT ![c] = "done"]
               /\ syncCallReturn' = [syncCallReturn EXCEPT ![c] = SyncFailure]
               /\ UNCHANGED meetingsRows
    /\ UNCHANGED <<meetingChunkRows, syncCallChunks, syncCallPersisted>>
    /\ UNCHANGED <<chunkVars, ragVars, transcriptVars, storeVars, embedVars,
                   mergeVars, formatVars, processRaceVars>>

\* chunkTranscript and generateEmbeddings: no chunk returns at once, a rejected
\* generateEmbeddings goes to the catch block
SyncEmbed(c) ==
    /\ syncCallPc[c] = "inserted"
    /\ \E n \in 0..MaxStoredChunks, ok \in BOOLEAN :
          IF n = 0
          THEN /\ syncCallPc' = [syncCallPc EXCEPT ![c] = "done"]
               /\ syncCallReturn' = [syncCallReturn EXCEPT ![c] = SyncReturn(TRUE, 0, FALSE)]
               /\ UNCHANGED syncCallChunks
          ELSE IF ok
          THEN /\ syncCallPc' = [syncCallPc EXCEPT ![c] = "embedded"]
               /\ syncCallChunks' = [syncCallChunks EXCEPT ![c] = n]
               /\ UNCHANGED syncCallReturn
          ELSE /\ syncCallPc' = [syncCallPc EXCEPT ![c] = "done"]
               /\ syncCallReturn' = [syncCallReturn EXCEPT ![c] = SyncFailure]
               /\ UNCHANGED syncCallChunks
    /\ UNCHANGED <<meetingsRows, meetingChunkRows, syncCallPersisted>>
    /\ UNCHANGED <<chunkVars, ragVars, transcriptVars, storeVars, embedVars,
                   mergeVars, formatVars, processRaceVars>>

\* from('meeting_chunks').insert(chunkRecords); a chunksError is logged only, and
\* chunksCreated is chunkRecords.length either way
SyncInsertChunkRows(c) ==
    /\ syncCallPc[c] = "embedded"
    /\ \E ok \in BOOLEAN :
          IF ok
          THEN /\ meetingChunkRows' = meetingChunkRows
                                        \union RequestRecords(c, syncCallChunks[c])
               /\ syncCallPersisted' = [syncCallPersisted EXCEPT ![c] = syncCallChunks[c]]
          ELSE UNCHANGED <<meetingChunkRows, syncCallPersisted>>
    /\ syncCallReturn' = [syncCallReturn EXCEPT
                            ![c] = SyncReturn(TRUE, syncCallChunks[c], FALSE)]
    /\ syncCallPc' = [syncCallPc EXCEPT ![c] = "done"]
    /\ UNCHANGED <<meetingsRows, syncCallChunks>>
    /\ UNCHANGED <<chunkVars, ragVars, transcriptVars, storeVars, embedVars,
                   mergeVars, formatVars, processRaceVars>>

----------------------------------------------------------------------------
(* Specifications *)

ChunkInit == ChunkIdle /\ RagIdle /\ TranscriptIdle /\ StoreIdle /\ EmbedIdle /\ MergeIdle /\ FormatIdle /\ ProcessRaceIdle /\ SyncRaceIdle

ChunkNext == ChunkStart \/ ChunkLoop \/ ChunkReturn

SpecChunk == ChunkInit /\ [][ChunkNext]_vars

ChunkLongInit == ChunkIdle /\ RagIdle /\ TranscriptIdle /\ StoreIdle /\ EmbedIdle /\ MergeIdle /\ FormatIdle /\ ProcessRaceIdle /\ SyncRaceIdle

ChunkLongNext == ChunkStartLong \/ ChunkLoop \/ ChunkReturn

SpecChunkLong == ChunkLongInit /\ [][ChunkLongNext]_vars

\* Repeated calls of chunkText
ChunkRepeatInit == ChunkIdle /\ RagIdle /\ TranscriptIdle /\ StoreIdle /\ EmbedIdle /\ MergeIdle /\ FormatIdle /\ ProcessRaceIdle /\ SyncRaceIdle
ChunkRepeatNext ==
    ChunkStart \/ ChunkLoop \/ ChunkReturn \/ ChunkOther \/ ChunkAgain
SpecChunkRepeat == ChunkRepeatInit /\ [][ChunkRepeatNext]_vars

ChunkAllInit == ChunkIdle /\ RagIdle /\ TranscriptIdle /\ StoreIdle /\ EmbedIdle /\ MergeIdle /\ FormatIdle /\ ProcessRaceIdle /\ SyncRaceIdle

ChunkAllNext == ChunkStart \/ ChunkStartLong \/ ChunkLoop \/ ChunkReturn

SpecChunkAll == ChunkAllInit /\ [][ChunkAllNext]_vars

RagInit == ChunkIdle /\ RagIdle /\ TranscriptIdle /\ StoreIdle /\ EmbedIdle /\ MergeIdle /\ FormatIdle /\ ProcessRaceIdle /\ SyncRaceIdle

RagNext ==
    RagCall \/ EmbedOk \/ EmbedFail \/ SearchOk \/ SearchFail \/ LookupOk \/ LookupFail

SpecRag == RagInit /\ [][RagNext]_vars

TranscriptInit == ChunkIdle /\ RagIdle /\ TranscriptIdle /\ StoreIdle /\ EmbedIdle /\ MergeIdle /\ FormatIdle /\ ProcessRaceIdle /\ SyncRaceIdle

TranscriptNext == TranscriptStart \/ TranscriptLine \/ TranscriptFinish

SpecTranscript == TranscriptInit /\ [][TranscriptNext]_vars

StoreInit == ChunkIdle /\ RagIdle /\ TranscriptIdle /\ StoreIdle /\ EmbedIdle /\ MergeIdle /\ FormatIdle /\ ProcessRaceIdle /\ SyncRaceIdle

StoreNext ==
    \/ ProcessFetch \/ ProcessMark \/ ProcessEmbedOk \/ ProcessEmbedFail
    \/ ProcessDelete \/ ProcessInsert \/ ProcessReady
    \/ SyncInsertMeeting \/ SyncInsertChunks \/ SyncEmbedFail
    \/ ReembedFetch \/ ReembedDelete \/ ReembedEmbedOk \/ ReembedEmbedFail
    \/ ReembedInsert
    \/ RetrieveDocument \/ RetrieveMeeting

SpecStore == StoreInit /\ [][StoreNext]_vars
EmbedInit == ChunkIdle /\ RagIdle /\ TranscriptIdle /\ StoreIdle /\ EmbedIdle /\ MergeIdle /\ FormatIdle /\ ProcessRaceIdle /\ SyncRaceIdle

EmbedNext ==
    \/ EmbeddingsStart
    \/ EmbeddingsSend
    \/ EmbeddingsBatchOk
    \/ EmbeddingsBatchFail
    \/ EmbeddingsReturn

SpecEmbed == EmbedInit /\ [][EmbedNext]_vars
MergeInit ==
    ChunkIdle /\ RagIdle /\ TranscriptIdle /\ StoreIdle /\ EmbedIdle /\ MergeIdle /\ FormatIdle /\ ProcessRaceIdle /\ SyncRaceIdle

MergeNext == MergeCall

SpecMerge == MergeInit /\ [][MergeNext]_vars
FormatInit ==
    /\ ChunkIdle /\ RagIdle /\ TranscriptIdle /\ StoreIdle /\ EmbedIdle /\ MergeIdle
    /\ FormatIdle /\ ProcessRaceIdle /\ SyncRaceIdle

FormatNext == FormatCall

SpecFormat == FormatInit /\ [][FormatNext]_vars
ProcessRaceInit ==
    /\ ChunkIdle /\ RagIdle /\ TranscriptIdle /\ StoreIdle /\ EmbedIdle /\ MergeIdle
    /\ FormatIdle /\ ProcessRaceIdle /\ SyncRaceIdle

ProcessRaceNext ==
    \/ \E r \in Requests : PostFetch(r)
    \/ \E r \in Requests : PostMark(r)
    \/ \E r \in Requests : PostEmbedOk(r)
    \/ \E r \in Requests : PostEmbedFail(r)
    \/ \E r \in Requests : PostDelete(r)
    \/ \E r \in Requests : PostInsert(r)
    \/ \E r \in Requests : PostReady(r)

SpecProcessRace == ProcessRaceInit /\ [][ProcessRaceNext]_vars
SyncRaceInit ==
    /\ ChunkIdle /\ RagIdle /\ TranscriptIdle /\ StoreIdle /\ EmbedIdle /\ MergeIdle
    /\ FormatIdle /\ ProcessRaceIdle /\ SyncRaceIdle

SyncRaceNext ==
    \/ \E c \in Calls : SyncCheck(c)
    \/ \E c \in Calls : SyncGetTranscript(c)
    \/ \E c \in Calls : SyncInsertRow(c)
    \/ \E c \in Calls : SyncEmbed(c)
    \/ \E c \in Calls : SyncInsertChunkRows(c)

SpecSyncRace == SyncRaceInit /\ [][SyncRaceNext]_vars

----------------------------------------------------------------------------
(* Claims about chunkText *)

Returned == cpc = "done"

\* Position p (0-based) of the normalized text lies in the span of some chunk
Covered(p) ==
    \E i \in 1..Len(chunks) : chunks[i].startChar <= p /\ p < chunks[i].endChar

\* C2: chunkText terminates for every text and every valid option set: the
\* forward-progress rule brings currentPosition to the text length, also when an
\* iteration produces a white-space-only slice that emits no chunk.  The loop is
\* deterministic in (cleanedText, options, currentPosition, chunks), so it
\* terminates only if no iteration leaves currentPosition and chunks as they were:
\* such an iteration is repeated for ever.
C2_ChunkTextTerminates ==
    [][ChunkLoop => <<currentPosition', chunks'>> # <<currentPosition, chunks>>]_vars

\* C3 (as claimed): for every input text shorter than chunkSize, chunkText returns
\* exactly one chunk whose content is the trimmed input, with startChar 0 and
\* endChar equal to the content length.
C3_ShortTextOneChunk_Claimed ==
    (Returned /\ Len(rawText) < chunkSize) =>
        /\ Len(chunks) = 1
        /\ chunks[1].content = Trim(rawText)
        /\ chunks[1].startChar = 0
        /\ chunks[1].endChar = Len(chunks[1].content)

\* C3 (amended): when the normalized text (line endings and tabs replaced, then
\* trimmed) is non-empty and at most chunkSize long, chunkText returns exactly one
\* chunk whose content is the normalized text, with startChar 0 and endChar equal
\* to the content length; when the normalized text is empty it returns no chunk.
C3_ShortTextOneChunk ==
    Returned =>
        /\ (cleanedText # <<>> /\ Len(cleanedText) <= chunkSize) =>
              /\ Len(chunks) = 1
              /\ chunks[1].content = cleanedText
              /\ chunks[1].chunkIndex = 0
              /\ chunks[1].startChar = 0
              /\ chunks[1].endChar = Len(chunks[1].content)
              /\ \A i \in 1..Len(chunks[1].content) :
                    chunks[1].content[i] \notin {"\t", "\r"}
              /\ ~IsSpace(chunks[1].content[1])
              /\ ~IsSpace(chunks[1].content[Len(chunks[1].content)])
              /\ (\A i \in 1..Len(rawText) : rawText[i] \notin {"\t", "\r"}) =>
                    chunks[1].content = Trim(rawText)
        /\ (\A i \in 1..Len(rawText) : IsSpace(rawText[i])) => chunks = <<>>

\* C3 witness: a text with surrounding white space and a tab was returned as one chunk
C3_Witness ==
    /\ Returned
    /\ Len(chunks) = 1
    /\ Len(cleanedText) <= chunkSize
    /\ chunks[1].content # rawText
    /\ \E i \in 1..Len(rawText) : rawText[i] = "\r"

\* C4 (as claimed): the spans of the returned chunks cover the normalized text from
\* offset 0 to its end with no gap longer than chunkOverlap between consecutive
\* chunks.
C4_CoverageGapBounded_Claimed ==
    (Returned /\ Len(chunks) > 0) =>
        /\ chunks[1].startChar = 0
        /\ chunks[Len(chunks)].endChar = Len(cleanedText)
        /\ \A i \in 1..(Len(chunks) - 1) :
              chunks[i + 1].startChar - chunks[i].endChar <= chunkOverlap

\* C4 (amended): the spans of the returned chunks start at offset 0, end at the
\* text length, and every character of the normalized text that no span covers is
\* white space (a gap may be longer than chunkOverlap).
C4_CoverageUpToWhitespace ==
    (Returned /\ cleanedText # <<>>) =>
        /\ Len(chunks) > 0
        /\ chunks[1].startChar = 0
        /\ chunks[Len(chunks)].endChar = Len(cleanedText)
        /\ \A p \in 0..(Len(cleanedText) - 1) :
              Covered(p) \/ IsSpace(cleanedText[p + 1])

\* C4 witness: a returned sequence with a gap longer than chunkOverlap
C4_Witness ==
    /\ Returned
    /\ \E i \in 1..(Len(chunks) - 1) :
          chunks[i + 1].startChar - chunks[i].endChar > chunkOverlap

\* C5: in every chunk sequence of chunkText, in chunkIndex order, startChar is
\* non-decreasing and the overlap of consecutive chunks (previous.endChar -
\* next.startChar) is at most chunkOverlap.
C5_StartsOrderedOverlapBounded ==
    \A i \in 1..(Len(chunks) - 1) :
        /\ chunks[i].chunkIndex < chunks[i + 1].chunkIndex
        /\ chunks[i].startChar <= chunks[i + 1].startChar
        /\ chunks[i].endChar - chunks[i + 1].startChar <= chunkOverlap

\* C5 witness: a returned sequence in which two consecutive chunks overlap by
\* exactly chunkOverlap > 0, after an iteration that emitted no chunk
C5_Witness ==
    /\ Returned
    /\ chunkOverlap > 0
    /\ \E i \in 1..(Len(chunks) - 1) :
          chunks[i].endChar - chunks[i + 1].startChar = chunkOverlap
    /\ \E i \in 1..(Len(chunks) - 1) :
          chunks[i + 1].startChar > chunks[i].endChar

----------------------------------------------------------------------------
(* Claims about retrieveRelevantChunks and hybridSearch *)

RagReturned == rpc = "done"

\* The partner that owns a document, whether or not the session may see it
DocumentPartner(d) ==
    CASE d = "d1" -> "p1" [] d = "d2" -> "p2" [] OTHER -> "p3"

\* The requested scope, on the owning document itself
InScope(document_id, o) ==
    /\ o.documentIds.given => document_id \in o.documentIds.ids
    /\ o.partnerId # Undefined => DocumentPartner(document_id) = o.partnerId

RECURSIVE SumTokens(_)
SumTokens(cs) == IF cs = <<>> THEN 0 ELSE ChunkTokens(Head(cs)) + SumTokens(Tail(cs))

\* The matched rows that pass the scope, in oracle order
ScopePassing == SelectSeq(matchedChunks, LAMBDA c : InScope(c.document_id, opts))

\* The first n scope-passing rows fit the budget and topK
PrefixFits(n) ==
    /\ n <= Len(ScopePassing)
    /\ n <= opts.topK
    /\ queryEmbedding.tokenCount + SumTokens(SubSeq(ScopePassing, 1, n))
          <= opts.maxTokens

\* C1: for every call of retrieveRelevantChunks the returned totalTokens is at
\* most the configured maxTokens, also when the oracle returns no candidate and
\* when the query's own token count exceeds maxTokens.
C1_TotalWithinBudget ==
    RagReturned => vectorResults.totalTokens <= opts.maxTokens

\* C6: every chunk retrieveRelevantChunks returns is in the requested scope (its
\* documentId is in options.documentIds, its document's partner is
\* options.partnerId, for the filters given); the candidates out of scope are
\* dropped without adding to totalTokens and without an error.
C6_ResultInScope ==
    RagReturned =>
        /\ \A i \in 1..Len(vectorResults.chunks) :
              InScope(vectorResults.chunks[i].documentId, opts)
        /\ \A i \in 1..Len(ragResult.chunks) :
              InScope(ragResult.chunks[i].documentId, ragCall.options)
        /\ vectorResults.totalTokens
              = queryEmbedding.tokenCount + SumTokens(vectorResults.chunks)

\* C6 witness: a call with both filters returned a chunk having dropped a row of
\* another document and a row of a document the session cannot see
C6_Witness ==
    /\ RagReturned
    /\ opts.partnerId # Undefined
    /\ Len(vectorResults.chunks) >= 1
    /\ \E i \in 1..Len(matchedChunks) : matchedChunks[i].document_id = "d3"
    /\ \E i \in 1..Len(matchedChunks) : matchedChunks[i].document_id = "d2"

\* C7: the chunks retrieveRelevantChunks returns are the longest prefix, in
\* oracle order, of the scope-passing candidates whose token costs added to the
\* query's stay within maxTokens and that has at most topK chunks: the walk stops
\* at the first candidate over budget and never skips it to take a later one.
C7_LongestFittingPrefix ==
    RagReturned =>
        LET n == Len(vectorResults.chunks)
        IN  /\ PrefixFits(n)
            /\ ~PrefixFits(n + 1)
            /\ \A i \in 1..n :
                  /\ vectorResults.chunks[i].id = ScopePassing[i].id
                  /\ vectorResults.chunks[i].content = ScopePassing[i].content
                  /\ vectorResults.chunks[i].similarity = ScopePassing[i].similarity

\* C8: in every RAGResult of retrieveRelevantChunks or hybridSearch, totalTokens
\* is the query's token count plus the token costs of exactly the chunks in
\* result.chunks.
C8_TotalIsQueryPlusChunks ==
    RagReturned =>
        ragResult.totalTokens
            = queryEmbedding.tokenCount + SumTokens(ragResult.chunks)

----------------------------------------------------------------------------
(* Claims about chunkTranscript *)

\* C9: every chunk chunkTranscript pushes carries in its metadata the timestamp
\* and the speaker of the first speaker-pattern line that went into its buffer; a
\* transcript of two speaker lines split into two chunks has each chunk tagged
\* with its own speaker and timestamp.
C9_ChunkTaggedWithFirstOfBuffer ==
    \A i \in 1..Len(transcriptChunks) :
        chunkFirst[i] # NoFirst =>
            /\ transcriptChunks[i].metadata.timestamp = chunkFirst[i][1].timestamp
            /\ transcriptChunks[i].metadata.speaker = chunkFirst[i][1].speaker

----------------------------------------------------------------------------
(* Claims about the replacement of a source's chunk set *)

\* C10: replacing the chunk set of a source (document reprocessing, meeting
\* re-embedding) is atomic for readers: no retrieval that runs between the start
\* and the end of a replace reads the source with its old chunks deleted and the
\* new ones not yet inserted, nor a mixture of old and new chunks.
C10_ReplaceAtomicForReaders ==
    observed.seen /\ observed.replacing /\ observed.old # {} =>
        /\ observed.rows # {}
        /\ observed.rows = observed.old \/ observed.rows \cap observed.old = {}

\* A reembedMeeting run ends in failure after its delete: generateEmbeddings
\* threw, or the insert answered with an error (no row of the run is stored)
ReembedFails ==
    \/ reembedPc = "deleted" /\ reembedPc' = "idle"
    \/ /\ reembedPc = "embedded" /\ reembedPc' = "idle"
       /\ storedMeetingChunks' = storedMeetingChunks

\* A POST run ends in failure after its delete: the insert answered with an error
ProcessInsertFails == processPc = "deleted" /\ processPc' = "idle"

\* C11: when a chunk-set replace fails part-way (the insert of the new chunks
\* fails, or the embeddings fail after the old chunks were deleted), the chunk
\* set the source had before the replace is still stored, unchanged.
C11_FailedReplaceKeepsPrior ==
    [][/\ ReembedFails => storedMeetingChunks' = meetingReplace.old
       /\ ProcessInsertFails => storedDocumentChunks' = documentReplace.old]_vars

----------------------------------------------------------------------------
(* Claims about retrieval: empty responses, failures, hybrid reranking *)

\* C12: when the oracle returns no candidate, retrieveRelevantChunks and
\* hybridSearch return normally, with no chunk and totalTokens equal to the token
\* count of the query embedding, and without looking up any document.
C12_EmptyResponseReturnsQueryCost ==
    /\ rpc = "lookup" => matchedChunks # <<>>
    /\ RagReturned /\ matchedChunks = <<>> =>
          /\ vectorResults.chunks = <<>>
          /\ vectorResults.totalTokens = queryEmbedding.tokenCount
          /\ ragResult = vectorResults
          /\ ragResult.query = ragCall.query
          /\ ioLog.documents = 0

\* C12 witness: hybridSearch returned on an empty response, the query costing
\* more than one token
C12_Witness ==
    /\ RagReturned
    /\ matchedChunks = <<>>
    /\ ragCall.fn = "hybridSearch"
    /\ queryEmbedding.tokenCount > 1
    /\ ragResult.totalTokens = queryEmbedding.tokenCount

\* C13: when the embedding call or the oracle call fails, the retrieval call
\* fails: the failed call was sent exactly once, no later request was sent (no
\* oracle call after a failed embedding, no document lookup after a failed oracle
\* call), and no RAGResult is returned.
C13_ProviderFailureFailsTheCall ==
    /\ ioLog.failed = "embedding" =>
          /\ rpc = "failed"
          /\ ioLog.embedding = 1 /\ ioLog.oracle = 0 /\ ioLog.documents = 0
          /\ vectorResults = NoResult /\ ragResult = NoResult
    /\ ioLog.failed = "oracle" =>
          /\ rpc = "failed"
          /\ ioLog.embedding = 1 /\ ioLog.oracle = 1 /\ ioLog.documents = 0
          /\ vectorResults = NoResult /\ ragResult = NoResult

\* C13 witness: a hybridSearch call failed at the oracle, its query embedded
C13_Witness ==
    /\ rpc = "failed"
    /\ ioLog.failed = "oracle"
    /\ ragCall.fn = "hybridSearch"
    /\ queryEmbedding.tokenCount > 0

\* Options the spec calls malformed: a size or a count that is zero or negative
MalformedRagOptions(o) == o.topK <= 0 \/ o.maxTokens <= 0

\* C14: malformed options (zero or negative topK or maxTokens, and likewise
\* chunkSize, chunkOverlap, batchSize) are rejected with a validation error before
\* any I/O and before any result is produced; stated here for
\* retrieveRelevantChunks: no request is sent and no RAGResult is returned.
C14_MalformedOptionsRejected ==
    ragCall.fn = "retrieveRelevantChunks" /\ MalformedRagOptions(ragCall.options) =>
        /\ ioLog = NoRequests
        /\ ragResult = NoResult
        /\ rpc # "done"

\* hybridSearch with keywordBoost = 0 has returned
HybridNoBoostReturned ==
    RagReturned /\ ragCall.fn = "hybridSearch" /\ ragCall.keywordBoost = 0

\* What retrieveRelevantChunks(query, options) returns on the same ranking: it
\* asks the oracle for topK * 2 rows, the first ones of the ranking
BaselineChunks ==
    LET count == Min(Len(matchedChunks), ragCall.options.topK * 2)
    IN  Walk(SubSeq(matchedChunks, 1, count), ragCall.options, documentMap,
             queryEmbedding.tokenCount, <<>>).chunks

\* Chunk sequence a is the head of chunk sequence b: same chunks, same order, same
\* similarity values
HeadOf(a, b) ==
    /\ Len(a) <= Len(b)
    /\ \A i \in 1..Len(a) :
          /\ a[i].id = b[i].id
          /\ RatEq(a[i].similarity, b[i].similarity)

\* C15: for every query and every oracle response sorted by similarity
\* descending, hybridSearch with keywordBoost = 0 returns its chunks in the order,
\* and with the similarity values, in which the baseline retrieval returns them:
\* its result is the head of the pool its own baseline call returned, and the
\* result of the baseline retrieval with the same options is the head of it.
C15_NoBoostKeepsBaselineOrder ==
    HybridNoBoostReturned =>
        /\ HeadOf(ragResult.chunks, vectorResults.chunks)
        /\ Len(ragResult.chunks)
              = Min(TopKOrDefault(ragCall.options.topK), Len(vectorResults.chunks))
        /\ HeadOf(BaselineChunks, ragResult.chunks)

\* C15 witness: two chunks of equal similarity returned, a third one cut off
C15_Witness ==
    /\ HybridNoBoostReturned
    /\ Len(ragResult.chunks) = 2
    /\ Len(vectorResults.chunks) = 3
    /\ RatEq(ragResult.chunks[1].similarity, ragResult.chunks[2].similarity)
    /\ Len(BaselineChunks) = 2

----------------------------------------------------------------------------
(* Claims about the boundaries of chunkText *)

\* Separator sep occurs in the normalized text at offset k, inside [from, to)
OccursIn(sep, k, from, to) ==
    /\ from <= k /\ k + Len(sep) <= to
    /\ \A i \in 1..Len(sep) : cleanedText[k + i] = sep[i]

\* Some separator occurs inside [from, to)
AnyOccursIn(from, to) ==
    \E j \in 1..Len(DefaultSeparators), k \in from..to :
        OccursIn(DefaultSeparators[j], k, from, to)

\* end is the boundary the rule gives with the window [from, naive): right after
\* the last occurrence in the window of the first separator, in preference order,
\* that occurs in it at all; the naive boundary if none occurs
RuleBoundary(end, from, naive) ==
    IF AnyOccursIn(from, naive)
    THEN \E j \in 1..Len(DefaultSeparators), k \in from..naive :
            /\ OccursIn(DefaultSeparators[j], k, from, naive)
            /\ \A j2 \in 1..(j - 1), k2 \in from..naive :
                  ~OccursIn(DefaultSeparators[j2], k2, from, naive)
            /\ \A k2 \in (k + 1)..naive :
                  ~OccursIn(DefaultSeparators[j], k2, from, naive)
            /\ end = k + Len(DefaultSeparators[j])
    ELSE end = naive

\* The chunks pushed by the loop whose naive boundary is not the end of the text
MidChunks ==
    IF Len(cleanedText) > chunkSize
    THEN {i \in 1..Len(chunks) : chunks[i].startChar + chunkSize < Len(cleanedText)}
    ELSE {}

\* C16 (as claimed): whenever the naive boundary currentPosition + chunkSize is
\* not the end of the text, the boundary is chosen in the trailing window of width
\* chunkOverlap that ends at the naive boundary: right after the last occurrence
\* in it of the first separator in preference order that occurs in it, and the
\* naive boundary if none occurs.
C16_BoundaryInOverlapWindow_Claimed ==
    \A i \in MidChunks :
        LET naive == chunks[i].startChar + chunkSize
        IN  RuleBoundary(chunks[i].endChar, naive - chunkOverlap, naive)

\* C16 (amended): the window has the fixed width 200, cut at the start of the
\* chunk, whatever chunkOverlap is.
C16_BoundaryInFixedWindow ==
    \A i \in MidChunks :
        LET naive == chunks[i].startChar + chunkSize
        IN  RuleBoundary(chunks[i].endChar,
                         Max(naive - SearchWindow, chunks[i].startChar), naive)

\* C16 witness: the first chunk is longer than the window, a line break lies
\* before the window and a space inside it, and the chunk ends after the space
C16_Witness ==
    /\ Returned
    /\ Len(chunks) >= 2
    /\ chunkOverlap = 2
    /\ chunkSize > SearchWindow
    /\ \E k \in 0..(chunkSize - SearchWindow - 1) : cleanedText[k + 1] = "\n"
    /\ chunks[1].endChar > chunkSize - SearchWindow
    /\ chunks[1].endChar <= chunkSize - chunkOverlap
    /\ cleanedText[chunks[1].endChar] = " "

\* Where the rule puts the start of the chunk after the one that spans
\* [start, end)
RuleNextStart(start, end) ==
    IF end - chunkOverlap > start THEN end - chunkOverlap ELSE end

\* The run is that of the scenario: 3200 characters, chunkSize 1500, chunkOverlap
\* 200, a paragraph break near character 1400
InScenario ==
    /\ rawText = ScenarioText
    /\ chunkSize = ProcessChunkSize
    /\ chunkOverlap = ProcessChunkOverlap

\* C17 (as claimed): after a chunk with boundary endChar is emitted, the next
\* chunk starts at endChar - chunkOverlap, unless that position does not exceed
\* the emitted chunk's startChar, in which case it starts at endChar.
C17_NextChunkStart_Claimed ==
    Len(cleanedText) > chunkSize =>
        \A i \in 1..(Len(chunks) - 1) :
            chunks[i + 1].startChar
                = RuleNextStart(chunks[i].startChar, chunks[i].endChar)

\* C17 (amended): an iteration that emits a chunk with boundary endChar leaves
\* currentPosition at endChar - chunkOverlap, or at endChar when that position
\* does not exceed the emitted chunk's startChar, and a chunk starts where the
\* iteration that emits it finds currentPosition; in the scenario the first
\* chunk ends right after the paragraph break and the second starts 200 before.
C17_NextIterationStart ==
    [][ChunkLoop /\ Len(chunks') = Len(chunks) + 1 =>
          LET emitted == chunks'[Len(chunks')]
          IN  /\ emitted.startChar = currentPosition
              /\ currentPosition' = RuleNextStart(emitted.startChar, emitted.endChar)
              /\ InScenario /\ Len(chunks') = 2 =>
                    /\ chunks'[1].endChar = 1400
                    /\ chunks'[2].startChar = chunks'[1].endChar - 200]_vars

\* C17 witness: the scenario ran, and the second chunk starts 200 before the end
\* of the first
C17_Witness ==
    /\ Returned
    /\ InScenario
    /\ Len(chunks) >= 2
    /\ chunks[1].endChar = 1400
    /\ chunks[2].startChar = 1200

----------------------------------------------------------------------------
(* Claims about hybridSearch *)

\* hybridSearch has returned
HybridReturned == RagReturned /\ ragCall.fn = "hybridSearch"

\* The query words longer than 3 characters, lower-cased
LongQueryWords == Keywords(ragCall.query)

\* similarity * (1 - keywordBoost) + keywordScore * keywordBoost for a chunk of the
\* baseline pool, keywordScore being the share of the long query words that occur
\* in the chunk whatever the case, and 0 when the query has none
ClaimedScore(chunk) ==
    LET n == Len(LongQueryWords)
        occurring == {w \in 1..n : Includes(ToLower(chunk.content), LongQueryWords[w])}
        sim == chunk.similarity
        boost == ragCall.keywordBoost
    IN  IF n = 0 THEN Rat(sim.num * (100 - boost), sim.den * 100)
        ELSE Rat(sim.num * (100 - boost) * n + Cardinality(occurring) * boost * sim.den,
                 sim.den * 100 * n)

\* Position in the baseline pool of the chunk with this id, 0 if it is not there
PoolIndex(id) ==
    LET at == {k \in 1..Len(vectorResults.chunks) : vectorResults.chunks[k].id = id}
    IN  IF at = {} THEN 0 ELSE CHOOSE k \in at : TRUE

\* Pool chunk i goes before pool chunk j: higher combined score, or the same score
\* and earlier in the pool
Outranks(i, j) ==
    LET si == ClaimedScore(vectorResults.chunks[i])
        sj == ClaimedScore(vectorResults.chunks[j])
    IN  RatLess(sj, si) \/ (RatEq(si, sj) /\ i < j)

\* The result holds chunks of the pool carrying their combined score, best first,
\* and no chunk left out goes before a chunk returned
RankedByCombinedScore ==
    LET res == ragResult.chunks
        pool == vectorResults.chunks
        returned == {PoolIndex(res[i].id) : i \in 1..Len(res)}
    IN  /\ \A i \in 1..Len(res) :
              /\ PoolIndex(res[i].id) # 0
              /\ res[i] = [pool[PoolIndex(res[i].id)] EXCEPT
                              !.similarity = res[i].similarity]
              /\ RatEq(res[i].similarity, ClaimedScore(pool[PoolIndex(res[i].id)]))
        /\ \A i, j \in 1..Len(res) :
              i < j => Outranks(PoolIndex(res[i].id), PoolIndex(res[j].id))
        /\ \A k \in 1..Len(pool) : \A i \in 1..Len(res) :
              k \notin returned => Outranks(PoolIndex(res[i].id), k)

\* C19: hybridSearch scores every chunk of the baseline pool with
\* similarity * (1 - keywordBoost) + keywordScore * keywordBoost and returns the
\* chunks sorted by that score descending, ties in their original order,
\* truncated to topK.
C19_RerankedAndTruncatedToTopK ==
    HybridReturned =>
        /\ RankedByCombinedScore
        /\ Len(ragResult.chunks) = Min(ragCall.options.topK, Len(vectorResults.chunks))

\* The n-th scope-passing candidate is selected by the budget walk run with
\* 2 x topK under the original maxTokens: it is within the enlarged topK and the
\* candidates up to it fit the budget together with the query
InClaimedPool(n) ==
    /\ n \in 1..Len(ScopePassing)
    /\ n <= 2 * ragCall.options.topK
    /\ queryEmbedding.tokenCount + SumTokens(SubSeq(ScopePassing, 1, n))
          <= ragCall.options.maxTokens

\* C20: every chunk hybridSearch returns belongs to the pool selected by the
\* baseline budget walk run with 2 x topK under the original maxTokens; a
\* candidate that walk excludes (over budget, out of scope, beyond the enlarged
\* topK) never appears in the hybrid result, whatever its keyword score.
C20_ResultWithinBaselinePool ==
    HybridReturned =>
        \A i \in 1..Len(ragResult.chunks) :
            \E n \in 1..Len(ScopePassing) :
                /\ InClaimedPool(n)
                /\ ScopePassing[n].id = ragResult.chunks[i].id

----------------------------------------------------------------------------
(* Claims about chunkTranscript, continued *)

\* The trailing floor(overlapSize / 5) words of a buffer, none when that is 0
TrailingWords(buffer, overlap) ==
    LET words == SplitOn(buffer, " ")
        n == Min(overlap \div CharsPerWord, Len(words))
    IN  SubSeq(words, Len(words) - n + 1, Len(words))

\* This step of the loop over the lines flushes the buffer
FlushStep ==
    /\ tpc = "lines"
    /\ lineIndex' = lineIndex + 1
    /\ Len(transcriptChunks') = Len(transcriptChunks) + 1

\* C21: after chunkTranscript flushes a buffer, the next buffer is seeded with
\* exactly the trailing floor(overlapSize / 5) words of the flushed buffer, for
\* every overlapSize >= 0, so that overlapSize < 5 seeds no words.
C21_SeedIsTrailingWords ==
    [][FlushStep =>
         LET m == SpeakerLine(lines[lineIndex])
         IN  currentChunk' = JoinWith(TrailingWords(currentChunk, overlapSize), " ")
                                \o <<"\n">> \o m.speaker \o <<":", " ">> \o m.text
                                \o <<"\n">>]_vars

\* chunkTranscript has returned
TranscriptReturned == tpc = "done"

\* No line of the transcript matches the speaker pattern
PatternFree == \A i \in 1..Len(lines) : ~SpeakerLine(lines[i]).matched

\* C22: if no line of a non-blank transcript matches the speaker pattern,
\* chunkTranscript chunks the whole transcript word-wise under the same
\* maxChunkSize / overlap-in-words scheme, with empty metadata, so a pattern-free
\* transcript longer than maxChunkSize yields more than one chunk.
C22_PatternFreeChunkedWordWise ==
    TranscriptReturned /\ PatternFree /\ Trim(transcript) # <<>> =>
        /\ transcriptChunks = FallbackWalk(SplitOn(transcript, " "), <<>>, <<>>,
                                           maxChunkSize, overlapSize)
        /\ Len(transcript) > maxChunkSize => Len(transcriptChunks) > 1

\* C23: every chunk chunkTranscript emits has non-empty content of at most
\* maxChunkSize characters, for every transcript (lines whose text alone exceeds
\* maxChunkSize, lines that do not match the speaker pattern, and the overlap
\* seed carried into the next buffer included).
C23_ChunkWithinMaxChunkSize ==
    TranscriptReturned =>
        \A i \in 1..Len(transcriptChunks) :
            /\ transcriptChunks[i].content # <<>>
            /\ Len(transcriptChunks[i].content) <= maxChunkSize

----------------------------------------------------------------------------
(* Claims about generateEmbeddings *)

\* The inputs of the calls sent so far, one after the other
RECURSIVE Concat(_)
Concat(batches) ==
    IF batches = <<>> THEN <<>> ELSE Head(batches) \o Concat(Tail(batches))

\* C24: generateEmbeddings sends the texts in consecutive batches of at most
\* batchSize items, one batch at a time (a call is issued only after the one
\* before returned); on success it returns exactly one result per input text in
\* input order; if a batch call fails the whole call fails with no partial result.
C24_SequentialBatchesInOrder ==
    /\ pendingCalls <= 1
    /\ \A b \in 1..Len(sentBatches) :
          Len(sentBatches[b]) \in 1..batchSize
    /\ Concat(sentBatches) = SubSeq(texts, 1, Len(Concat(sentBatches)))
    /\ epc = "done" =>
          /\ embeddingsReturn.resolved
          /\ Concat(sentBatches) = texts
          /\ Len(embeddingsReturn.value) = Len(texts)
          /\ \A k \in 1..Len(texts) :
                embeddingsReturn.value[k].embedding = EmbeddingOf(texts[k])
    /\ epc = "failed" => embeddingsReturn = NoReturn

\* C24 witness: three texts went out in a batch of two and a batch of one, and
\* the call returned
C24_Witness ==
    /\ epc = "done"
    /\ Len(texts) = 3
    /\ Len(sentBatches) = 2
    /\ Len(sentBatches[2]) = 1
    /\ texts[1] # texts[2]

----------------------------------------------------------------------------
(* Claims about mergeSmallChunks *)

\* mergeSmallChunks has returned
MergeReturned == mpc = "done"

\* The output is numbered 0..n-1, spans the input from its first startChar to
\* its last endChar, and is not longer than the input
MergeKeepsSpanAndOrder ==
    /\ Len(mergeOutput) <= Len(mergeInput)
    /\ \A i \in 1..Len(mergeOutput) : mergeOutput[i].chunkIndex = i - 1
    /\ mergeInput # <<>> =>
          /\ mergeOutput # <<>>
          /\ mergeOutput[1].startChar = mergeInput[1].startChar
          /\ mergeOutput[Len(mergeOutput)].endChar
                = mergeInput[Len(mergeInput)].endChar

\* C25: mergeSmallChunks folds every chunk whose content is shorter than minSize
\* into its successor: in the output every chunk has content length >= minSize,
\* chunkIndex values are 0..n-1 in order, the first startChar and last endChar
\* of the input are preserved, and the number of chunks does not increase.
C25_NoSmallChunkLeft ==
    MergeReturned =>
        /\ \A i \in 1..Len(mergeOutput) : Len(mergeOutput[i].content) >= minSize
        /\ MergeKeepsSpanAndOrder

----------------------------------------------------------------------------
(* Claims about formatChunksForContext *)

\* Text t occurs in s at position p
OccursAt(s, p, t) ==
    /\ p + Len(t) - 1 <= Len(s)
    /\ \A k \in 1..Len(t) : s[p + k - 1] = t[k]

\* The positions of s where t occurs
Occurrences(s, t) == {p \in 1..Len(s) : OccursAt(s, p, t)}

\* The opening of every source marker
MarkerOpening == <<"[", "S", "o", "u", "r", "c", "e", " ">>

\* [Source i: documentName (Chunk chunkIndex+1)] for the i-th input chunk
ClaimedMarker(i) ==
    MarkerOpening \o Decimal(i) \o <<":", " ">> \o formatInput[i].documentName
        \o <<" ", "(", "C", "h", "u", "n", "k", " ">>
        \o Decimal(formatInput[i].chunkIndex + 1) \o <<")", "]">>

\* Where the marker of the i-th chunk stands in the output, 0 if nowhere
MarkerPosition(i) ==
    LET at == Occurrences(formatOutput, ClaimedMarker(i))
    IN  IF at = {} THEN 0 ELSE CHOOSE p \in at : \A r \in at : p <= r

\* C26: formatChunksForContext returns the fixed 'no relevant documents'
\* sentinel for zero chunks; otherwise its output holds, for the i-th input chunk
\* in input order, one marker [Source i: documentName (Chunk chunkIndex+1)]
\* followed at once by the chunk's content and a separator, and exactly as many
\* markers as input chunks.
C26_OneMarkerPerChunkInOrder ==
    fpc = "done" =>
        IF formatInput = <<>> THEN formatOutput = NoDocumentsSentinel
        ELSE /\ Cardinality(Occurrences(formatOutput, MarkerOpening))
                   = Len(formatInput)
             /\ \A i \in 1..Len(formatInput) :
                   /\ MarkerPosition(i) # 0
                   /\ OccursAt(formatOutput, MarkerPosition(i),
                               ClaimedMarker(i) \o <<"\n">> \o formatInput[i].content
                                   \o <<"\n", "-", "-", "-">>)
             /\ \A i \in 1..(Len(formatInput) - 1) :
                   MarkerPosition(i) < MarkerPosition(i + 1)

\* C26 witness: three chunks were formatted, the second one the chunk with
\* chunk_index 9 of another document than the first
C26_Witness ==
    /\ fpc = "done"
    /\ Len(formatInput) = 3
    /\ formatInput[2].chunkIndex = 9
    /\ formatInput[1].documentName # formatInput[2].documentName
    /\ MarkerPosition(3) > MarkerPosition(2)

----------------------------------------------------------------------------
(* Claims about the spans of chunkText *)

\* C27: for consecutive chunks emitted by chunkText both startChar and endChar
\* are strictly increasing, so no chunk's span lies inside the span of its
\* predecessor (no redundant chunk at the end of the text).
C27_SpansStrictlyIncreasing ==
    \A i \in 1..(Len(chunks) - 1) :
        /\ chunks[i].startChar < chunks[i + 1].startChar
        /\ chunks[i].endChar < chunks[i + 1].endChar

\* C28: every chunk emitted by chunkText has 0 <= startChar < endChar <= length
\* of the normalized text and endChar - startChar <= chunkSize, its content is the
\* non-empty trimmed slice of the normalized text between startChar and endChar,
\* and chunkIndex values are 0, 1, ..., n-1 in emission order.
C28_ChunkIsTrimmedSliceOfItsSpan ==
    \A i \in 1..Len(chunks) :
        /\ 0 <= chunks[i].startChar
        /\ chunks[i].startChar < chunks[i].endChar
        /\ chunks[i].endChar <= Len(cleanedText)
        /\ chunks[i].endChar - chunks[i].startChar <= chunkSize
        /\ chunks[i].content # <<>>
        /\ chunks[i].content
              = Trim(SubSeq(cleanedText, chunks[i].startChar + 1, chunks[i].endChar))
        /\ chunks[i].chunkIndex = i - 1

\* C28 witness: a returned sequence of several chunks, one of them shorter than
\* its span because white space was trimmed, the last one ending with the text
C28_Witness ==
    /\ Returned
    /\ Len(chunks) >= 2
    /\ chunks[Len(chunks)].endChar = Len(cleanedText)
    /\ \E i \in 1..Len(chunks) :
          Len(chunks[i].content) < chunks[i].endChar - chunks[i].startChar

----------------------------------------------------------------------------
(* Claims about concurrent requests *)

\* Both requests passed the status check
BothPassedCheck == \A r \in Requests : postPc[r] \notin {"idle", "refused"}

\* Both requests have finished
BothFinished == \A r \in Requests : postPc[r] \in {"finished", "failed", "refused"}

\* The stored rows are one chunk set: every chunk_index at most once
OneChunkSet(rows) ==
    \A x, y \in rows : x.chunk_index = y.chunk_index => x = y

\* The stored rows hold every chunk of the document
CompleteChunkSet(rows, n) ==
    n > 0 /\ {x.chunk_index : x \in rows} = 0..(n - 1)

\* C29: for any interleaving of two POST /api/documents/process requests for
\* the same document that both pass the status check, once both have finished
\* the store holds exactly one chunk set for the document (each chunk_index at
\* most once), and a document whose status is 'ready' always has its complete
\* chunk set stored.
C29_OneChunkSetAfterTwoRequests ==
    BothPassedCheck =>
        /\ BothFinished => OneChunkSet(docChunkRows)
        /\ docStatus = "ready" => CompleteChunkSet(docChunkRows, docChunkCount)

\* At most one meetings row and one set of meeting chunks is stored
OneMeetingOneChunkSet ==
    /\ Cardinality(meetingsRows) <= 1
    /\ OneChunkSet(meetingChunkRows)
    /\ \A x \in meetingChunkRows : x.by \in meetingsRows

\* A call that found the meeting present inserted nothing and returned 0
AlreadySyncedInsertsNothing ==
    \A c \in Calls :
        syncCallReturn[c].alreadySynced =>
            /\ c \notin meetingsRows
            /\ syncCallPersisted[c] = 0
            /\ syncCallReturn[c].chunksCreated = 0

\* C30: for any sequence or interleaving of syncMeeting calls with the same
\* firefliesId, at most one meeting row and at most one set of meeting chunks is
\* stored for that id; a call that finds the meeting already present inserts
\* nothing and returns chunksCreated = 0; and the chunksCreated a call returns
\* equals the number of chunks it actually persisted.
C30_SyncOnceAndCountPersisted ==
    /\ OneMeetingOneChunkSet
    /\ AlreadySyncedInsertsNothing
    /\ \A c \in Calls :
          syncCallReturn[c].returned =>
              syncCallReturn[c].chunksCreated = syncCallPersisted[c]

====
